---------------------------- MODULE Spec2Model ----------------------------
(***************************************************************************)
(* A model of the go-gemini client: hostname verification (vendor.go, the  *)
(* copy of crypto/x509's matching code), the connection manager            *)
(* (Client.connect), the fetch sequence (Client.FetchWithHostAndCert) and  *)
(* the header codec (getResponse / getHeader / readHeader).                *)
(*                                                                         *)
(* Strings are sequences of one-character strings, so that splitting,      *)
(* trimming and case folding are computed the way the code computes them.  *)
(***************************************************************************)
EXTENDS Integers, Sequences, FiniteSets, TLC

VARIABLES
    \* --- one verifyHostname call (specification SpecVerify) ---
    vcert,      \* the certificate handed to verifyHostname
    vhost,      \* the host handed to verifyHostname
    vres,       \* "none" before the call, then "ok" or "mismatch"
    \* --- one fetch (specification Spec) ---
    client,     \* the Client's fields
    pc,         \* position of the fetch inside FetchWithHostAndCert / connect
    now,        \* the wall clock, time.Now()
    start,      \* start := time.Now() taken before connect
    inHost,     \* the host argument
    inURL,      \* the rawURL argument
    inPEM,      \* the certPEM/keyPEM arguments: "empty", "valid" or "invalid"
    host,       \* the local variable host (port added, punycoded)
    u,          \* the punycoded URL that is sent
    sock,       \* the TLS connection: "none", "open" or "closed"
    deadline,   \* the connection's deadline, NoDeadline when there is none
    peer,       \* the peer's leaf certificate
    wire,       \* what the client has written to the connection
    sent,       \* the Read results the connection gives, from the first on
    stream,     \* the bytes the server still has to deliver
    res,        \* the Response under construction (res in the code)
    retRes,     \* the *Response the fetch returned: "nil" or "res"
    retErr,     \* the error the fetch returned: "none" (nil) or its kind
    \* --- the caller's use of the returned Response ---
    lastSet,    \* the last Response.SetReadTimeout call: its d and its time
    \* --- a server's writeResponse (specification SpecRoundTrip) ---
    served,     \* the Response handed to writeResponse: its Status and Meta
    \* --- one call of the status helpers (specification SpecStatus) ---
    helper,     \* the status passed in, and what each helper returned
    \* --- calls of QueryEscape and QueryUnescape (specification SpecQuery) ---
    qcall,      \* the query string, and what each function was given and
                \* returned
    \* --- two fetches on one Client (specification SpecShare) ---
    sched       \* which fetch is running, the locals of the fetch that is
                \* not, and what the network does for each

verifyVars == <<vcert, vhost, vres>>
fetchVars  == <<client, pc, now, start, inHost, inURL, inPEM, host, u, sock,
                deadline, peer, wire, sent, stream, res, retRes, retErr>>
callVars   == <<lastSet, served, helper, qcall, sched>>
vars       == <<verifyVars, fetchVars, callVars>>

---------------------------------------------------------------------------
(* Bounds of the model.                                                    *)

\* longest host / candidate name enumerated exhaustively in SpecVerify
MaxNameLen == 3
\* longest stream enumerated exhaustively in SpecHeader
MaxStreamLen == 6
\* longest meta enumerated exhaustively in SpecRoundTrip
MaxMetaLen == 3
\* the status helpers are called on the statuses from -MaxStatus to MaxStatus
MaxStatus == 109
\* the clock runs from 0 to MaxTime
MaxTime == 5
\* a fetch starts at a time from 0 to MaxStart
MaxStart == 1
\* the non-zero ConnectTimeout and ReadTimeout a Client may carry
SomeConnectTimeout == 2
SomeReadTimeout == 3
\* the validity window of the peer certificates
PeerNotBefore == 2
PeerNotAfter == 3
\* longest query string enumerated exhaustively in SpecQuery
MaxQueryLen == 3

---------------------------------------------------------------------------
(* Characters and strings.                                                 *)

LowerChars == <<"a","b","c","d","e","f","g","h","i","j","k","l","m","n","o","p","q","r","s","t","u","v","w","x","y","z">>
UpperChars == <<"A","B","C","D","E","F","G","H","I","J","K","L","M","N","O","P","Q","R","S","T","U","V","W","X","Y","Z">>
DigitChars == <<"0","1","2","3","4","5","6","7","8","9">>

Range(s) == {s[i] : i \in 1..Len(s)}

IsLower(c) == c \in Range(LowerChars)
IsUpper(c) == c \in Range(UpperChars)
IsDigit(c) == c \in Range(DigitChars)

IndexIn(c, s) == CHOOSE i \in 1..Len(s) : s[i] = c

Contains(s, c) == \E i \in 1..Len(s) : s[i] = c

\* strings.Split(s, c) for a one-character separator
RECURSIVE Split(_, _)
Split(s, c) ==
    IF ~Contains(s, c) THEN <<s>>
    ELSE LET i == CHOOSE k \in 1..Len(s) :
                      s[k] = c /\ \A j \in 1..(k-1) : s[j] # c
         IN  <<SubSeq(s, 1, i-1)>> \o Split(SubSeq(s, i+1, Len(s)), c)

\* strings.TrimSuffix(s, ".")
TrimSuffixDot(s) ==
    IF Len(s) > 0 /\ s[Len(s)] = "." THEN SubSeq(s, 1, Len(s)-1) ELSE s

\* all strings over alphabet A of length at most n
RECURSIVE StringsUpTo(_, _)
StringsUpTo(A, n) ==
    IF n = 0 THEN {<<>>}
    ELSE LET S == StringsUpTo(A, n-1)
         IN  S \cup {Append(s, c) : s \in {t \in S : Len(t) = n-1}, c \in A}

---------------------------------------------------------------------------
(* net.ParseIP and IP.Equal, as verifyHostname uses them.  An address is   *)
(* its eight 16-bit groups; an IPv4 address is its IPv4-in-IPv6 form, which*)
(* is how IP.Equal compares the two families.                              *)

NoIP == <<>>

HexChars == <<"0","1","2","3","4","5","6","7","8","9","a","b","c","d","e","f">>
IsHex(c) == c \in Range(HexChars) \/ c \in {"A","B","C","D","E","F"}
HexVal(c) ==
    IF c \in Range(HexChars) THEN IndexIn(c, HexChars) - 1
    ELSE IndexIn(c, <<"A","B","C","D","E","F">>) + 9

RECURSIVE NumVal(_, _)
NumVal(s, base) ==
    IF s = <<>> THEN 0
    ELSE NumVal(SubSeq(s, 1, Len(s)-1), base) * base + HexVal(s[Len(s)])

ValidDec(p) ==
    /\ Len(p) \in 1..3
    /\ \A i \in 1..Len(p) : IsDigit(p[i])
    /\ (Len(p) > 1 => p[1] # "0")
    /\ NumVal(p, 10) <= 255

\* the four fields of a dotted-decimal address, once split
ipv4OfParts(parts) ==
    IF Len(parts) = 4 /\ \A i \in 1..4 : ValidDec(parts[i])
    THEN <<0, 0, 0, 0, 0, 65535,
           NumVal(parts[1], 10) * 256 + NumVal(parts[2], 10),
           NumVal(parts[3], 10) * 256 + NumVal(parts[4], 10)>>
    ELSE NoIP

ParseIPv4(s) == ipv4OfParts(Split(s, "."))

ValidHexGroup(g) == Len(g) \in 1..4 /\ \A i \in 1..Len(g) : IsHex(g[i])

BadGroups == <<-1>>

\* m hexadecimal groups followed by the two groups of a dotted tail (v4)
groupsWithTail(parts, m, v4) ==
    IF (\A i \in 1..m : ValidHexGroup(parts[i]))
       /\ (m < Len(parts) => v4 # NoIP)
    THEN [i \in 1..m |-> NumVal(parts[i], 16)]
         \o (IF m < Len(parts) THEN <<v4[7], v4[8]>> ELSE <<>>)
    ELSE BadGroups

groupsOfParts(parts, last4) ==
    IF last4 /\ Contains(parts[Len(parts)], ".")
    THEN groupsWithTail(parts, Len(parts) - 1, ParseIPv4(parts[Len(parts)]))
    ELSE groupsWithTail(parts, Len(parts), NoIP)

\* the groups of a colon-separated run, or BadGroups when one is malformed;
\* the last group may be a dotted IPv4 address when last4 is set
GroupsOf(s, last4) ==
    IF s = <<>> THEN <<>> ELSE groupsOfParts(Split(s, ":"), last4)

Zeros(n) == [i \in 1..n |-> 0]

\* the groups left and right of the "::"
ipv6Around(l, r) ==
    IF l # BadGroups /\ r # BadGroups /\ Len(l) + Len(r) <= 7
    THEN l \o Zeros(8 - Len(l) - Len(r)) \o r
    ELSE NoIP

ipv6Full(g) == IF Len(g) = 8 /\ g # BadGroups THEN g ELSE NoIP

\* i: where the first "::" starts, 0 when there is none
ipv6At(s, i) ==
    IF i = 0 THEN ipv6Full(GroupsOf(s, TRUE))
    ELSE ipv6Around(GroupsOf(SubSeq(s, 1, i - 1), FALSE),
                    GroupsOf(SubSeq(s, i + 2, Len(s)), TRUE))

firstEllipsis(s) ==
    IF \E i \in 1..(Len(s) - 1) : s[i] = ":" /\ s[i + 1] = ":"
    THEN CHOOSE k \in 1..(Len(s) - 1) :
            /\ s[k] = ":" /\ s[k + 1] = ":"
            /\ \A j \in 1..(k - 1) : ~(s[j] = ":" /\ s[j + 1] = ":")
    ELSE 0

ParseIPv6(s) == ipv6At(s, firstEllipsis(s))

ParseIP(s) ==
    IF Contains(s, ":") THEN ParseIPv6(s)
    ELSE IF Contains(s, ".") THEN ParseIPv4(s)
    ELSE NoIP

---------------------------------------------------------------------------
(* Hostname verification: vendor.go.                                       *)
(* A certificate is the capability set verifyHostname reads: DNSNames,     *)
(* IPAddresses, Subject.CommonName and whether the SAN extension is        *)
(* present, plus the validity window connect reads.                        *)

Cert(dns, ips, cn, san, nb, na) ==
    [DNSNames |-> dns, IPAddresses |-> ips, CommonName |-> cn,
     HasSAN |-> san, NotBefore |-> nb, NotAfter |-> na]

hasSANExtension(c) == c.HasSAN

\* validHostname with the wildcard label let through on the host side too
validHostnameStarOnHost(name, isPattern) ==
    LET hst   == IF ~isPattern THEN TrimSuffixDot(name) ELSE name
        parts == Split(hst, ".")
        okPart(i) ==
            /\ parts[i] # <<>>
            /\ \/ (i = 1 /\ parts[i] = <<"*">>)
               \/ \A j \in 1..Len(parts[i]) :
                    \/ IsLower(parts[i][j])
                    \/ IsDigit(parts[i][j])
                    \/ IsUpper(parts[i][j])
                    \/ (parts[i][j] = "-" /\ j # 1)
                    \/ parts[i][j] = "_"
    IN  /\ Len(hst) # 0
        /\ \A i \in 1..Len(parts) : okPart(i)

\* validHostname(host, isPattern)
validHostname(name, isPattern) ==
    LET hst   == IF ~isPattern THEN TrimSuffixDot(name) ELSE name
        parts == Split(hst, ".")
        okChar(part, j) ==
            LET c == part[j]
            IN  \/ IsLower(c)
                \/ IsDigit(c)
                \/ IsUpper(c)
                \/ (c = "-" /\ j # 1)
                \/ c = "_"
        okPart(i) ==
            /\ parts[i] # <<>>
            /\ \/ (isPattern /\ i = 1 /\ parts[i] = <<"*">>)
               \/ \A j \in 1..Len(parts[i]) : okChar(parts[i], j)
    IN  /\ Len(hst) # 0
        /\ \A i \in 1..Len(parts) : okPart(i)

validHostnamePattern(name) == validHostname(name, TRUE)
validHostnameInput(name)   == validHostname(name, FALSE)

\* commonNameAsHostname with the SAN test dropped (the common name trusted
\* beside a SAN extension)
commonNameAsHostnameIgnoringSAN(c) == validHostnamePattern(c.CommonName)

\* commonNameAsHostname(c)
commonNameAsHostname(c) ==
    ~hasSANExtension(c) /\ validHostnamePattern(c.CommonName)

\* a case folding that also folds the non-ASCII capital letter
toLowerCaseUnicode(in) ==
    [i \in 1..Len(in) |->
        IF IsUpper(in[i]) THEN LowerChars[IndexIn(in[i], UpperChars)]
        ELSE IF in[i] = "<c9>" THEN "<e9>" ELSE in[i]]

\* toLowerCaseASCII(in): only the bytes 'A'..'Z' change
toLowerCaseASCII(in) ==
    [i \in 1..Len(in) |->
        IF IsUpper(in[i]) THEN LowerChars[IndexIn(in[i], UpperChars)] ELSE in[i]]

\* matchExactly without the rejection of empty and bare-dot names
matchExactlyNoEmptyCheck(hostA, hostB) ==
    toLowerCaseASCII(hostA) = toLowerCaseASCII(hostB)

\* matchExactly(hostA, hostB)
matchExactly(hostA, hostB) ==
    IF hostA = <<>> \/ hostA = <<".">> \/ hostB = <<>> \/ hostB = <<".">>
    THEN FALSE
    ELSE toLowerCaseASCII(hostA) = toLowerCaseASCII(hostB)

\* matchHostnames with a wildcard that swallows any number of leading host
\* labels (one or more), the labels compared from the right
matchHostnamesWildcardMany(pattern, hostname) ==
    LET pat == toLowerCaseASCII(pattern)
        hst == toLowerCaseASCII(TrimSuffixDot(hostname))
        patternParts == Split(pat, ".")
        hostParts    == Split(hst, ".")
        d == Len(hostParts) - Len(patternParts)
    IN  IF Len(pat) = 0 \/ Len(hst) = 0 THEN FALSE
        ELSE IF patternParts[1] = <<"*">>
             THEN /\ d >= 0
                  /\ \A i \in 2..Len(patternParts) :
                        patternParts[i] = hostParts[i + d]
             ELSE /\ d = 0
                  /\ \A i \in 1..Len(patternParts) :
                        patternParts[i] = hostParts[i]

\* matchHostnames(pattern, host)
matchHostnames(pattern, hostname) ==
    LET pat == toLowerCaseASCII(pattern)
        hst == toLowerCaseASCII(TrimSuffixDot(hostname))
        patternParts == Split(pat, ".")
        hostParts    == Split(hst, ".")
    IN  IF Len(pat) = 0 \/ Len(hst) = 0 THEN FALSE
        ELSE IF Len(patternParts) # Len(hostParts) THEN FALSE
        ELSE \A i \in 1..Len(patternParts) :
                \/ (i = 1 /\ patternParts[i] = <<"*">>)
                \/ patternParts[i] = hostParts[i]

\* the bracket stripping at the head of verifyHostname
candidateIPOf(h) ==
    IF Len(h) >= 3 /\ h[1] = "[" /\ h[Len(h)] = "]"
    THEN SubSeq(h, 2, Len(h)-1) ELSE h

\* names := c.DNSNames, replaced by the common name alone under the fallback
candidateNames(c) ==
    IF commonNameAsHostname(c) THEN <<c.CommonName>> ELSE c.DNSNames

\* the loop over names, from entry i on: TRUE when some entry returns nil
RECURSIVE matchFrom(_, _, _, _)
matchFrom(names, i, candidateName, validCandidateName) ==
    IF i > Len(names) THEN FALSE
    ELSE IF validCandidateName /\ validHostnamePattern(names[i])
         THEN IF matchHostnames(names[i], candidateName) THEN TRUE
              ELSE matchFrom(names, i+1, candidateName, validCandidateName)
         ELSE IF matchExactly(names[i], candidateName) THEN TRUE
              ELSE matchFrom(names, i+1, candidateName, validCandidateName)

\* the IP branch: only the IP SANs are matched
ipInList(c, ip) == \E i \in 1..Len(c.IPAddresses) : c.IPAddresses[i] = ip

\* the name branch, for the case-folded host
nameInList(c, candidateName) ==
    matchFrom(candidateNames(c), 1, candidateName,
              validHostnameInput(candidateName))

\* verifyHostname with an IP host that is not in the IP list falling through
\* to the name matching instead of failing
verifyWithIPFallingThrough(c, h, ip) ==
    \/ (ip # NoIP /\ ipInList(c, ip))
    \/ nameInList(c, toLowerCaseASCII(h))

verifyWithIP(c, h, ip) ==
    IF ip # NoIP THEN ipInList(c, ip)
    ELSE nameInList(c, toLowerCaseASCII(h))

\* verifyHostname(c, h): TRUE when it returns nil
verifyHostname(c, h) == verifyWithIP(c, h, ParseIP(candidateIPOf(h)))

---------------------------------------------------------------------------
(* Host strings: net.SplitHostPort, net.JoinHostPort, idna.ToASCII,        *)
(* idna.ToUnicode and punycodeHost (client.go).                            *)

IsASCII(c) == c \notin {"<e9>", "<c9>"}

LastIndex(s, c) ==
    IF Contains(s, c)
    THEN CHOOSE i \in 1..Len(s) : s[i] = c /\ \A j \in (i+1)..Len(s) : s[j] # c
    ELSE 0

FirstIndex(s, c) ==
    IF Contains(s, c)
    THEN CHOOSE i \in 1..Len(s) : s[i] = c /\ \A j \in 1..(i-1) : s[j] # c
    ELSE 0

SplitFailed == [ok |-> FALSE, host |-> <<>>, port |-> <<>>]

\* a bracketed host: end is where the first "]" stands, i the last colon
splitBracketed(hp, i, end) ==
    IF end = 0 \/ end + 1 # i THEN SplitFailed
    ELSE IF Contains(SubSeq(hp, 2, Len(hp)), "[")
            \/ Contains(SubSeq(hp, end + 1, Len(hp)), "]")
    THEN SplitFailed
    ELSE [ok |-> TRUE, host |-> SubSeq(hp, 2, end - 1),
          port |-> SubSeq(hp, i + 1, Len(hp))]

\* i is where the last colon stands, 0 when there is none
splitAt(hp, i) ==
    IF i = 0 THEN SplitFailed
    ELSE IF hp[1] = "[" THEN splitBracketed(hp, i, FirstIndex(hp, "]"))
    ELSE IF Contains(SubSeq(hp, 1, i - 1), ":") THEN SplitFailed
    ELSE IF Contains(hp, "[") \/ Contains(hp, "]") THEN SplitFailed
    ELSE [ok |-> TRUE, host |-> SubSeq(hp, 1, i - 1),
          port |-> SubSeq(hp, i + 1, Len(hp))]

\* net.SplitHostPort(hostport); on an error host and port are empty
SplitHostPort(hp) == splitAt(hp, LastIndex(hp, ":"))

\* net.JoinHostPort(host, port)
JoinHostPort(hst, port) ==
    IF Contains(hst, ":") \/ Contains(hst, "%")
    THEN <<"[">> \o hst \o <<"]", ":">> \o port
    ELSE hst \o <<":">> \o port

DefaultPort == <<"1","9","6","5">>

AcePrefix == <<"x","n","-","-">>

\* the Punycode codec on the labels this model uses: e-acute (U+00E9) is
\* "9ca", its upper-case form (U+00C9) is "dca"
PunyPairs == { << <<"<e9>">>, <<"9","c","a">> >>,
               << <<"<c9>">>, <<"d","c","a">> >> }

HasAcePrefix(l) == Len(l) >= 4 /\ SubSeq(l, 1, 4) = AcePrefix

RECURSIVE JoinDots(_)
JoinDots(labels) ==
    IF Len(labels) = 0 THEN <<>>
    ELSE IF Len(labels) = 1 THEN labels[1]
    ELSE labels[1] \o <<".">> \o JoinDots(Tail(labels))

\* the part of an "xn--" label after the prefix, decoded
decodeRest(l, rest) ==
    IF \E pr \in PunyPairs : pr[2] = rest
    THEN [ok |-> TRUE, s |-> (CHOOSE pr \in PunyPairs : pr[2] = rest)[1]]
    ELSE [ok |-> FALSE, s |-> l]

\* one label to its Unicode form; an "xn--" label that does not decode is
\* left as it is and reported
LabelToUnicode(l) ==
    IF HasAcePrefix(l) THEN decodeRest(l, SubSeq(l, 5, Len(l)))
    ELSE [ok |-> TRUE, s |-> l]

\* one label to its ASCII form: an ASCII label is kept, an "xn--" label must
\* decode, a label with non-ASCII letters is encoded
LabelToASCII(l) ==
    IF HasAcePrefix(l) THEN [ok |-> LabelToUnicode(l).ok, s |-> l]
    ELSE IF \A i \in 1..Len(l) : IsASCII(l[i]) THEN [ok |-> TRUE, s |-> l]
    ELSE IF \E pr \in PunyPairs : pr[1] = l
    THEN [ok |-> TRUE,
          s |-> AcePrefix \o (CHOOSE pr \in PunyPairs : pr[1] = l)[2]]
    ELSE [ok |-> FALSE, s |-> l]

\* the converted labels put together again
joinConverted(rs) ==
    [ok |-> \A i \in 1..Len(rs) : rs[i].ok,
     s  |-> JoinDots([i \in 1..Len(rs) |-> rs[i].s])]

labelsToUnicode(ls) == joinConverted([i \in 1..Len(ls) |-> LabelToUnicode(ls[i])])
labelsToASCII(ls)   == joinConverted([i \in 1..Len(ls) |-> LabelToASCII(ls[i])])

\* idna.ToUnicode(name): the string and whether err is nil
ToUnicode(name) == labelsToUnicode(Split(name, "."))

\* idna.ToASCII(name)
ToASCII(name) == labelsToASCII(Split(name, "."))

\* punycodeHost once the hostname is converted (lines 31-38)
punycodeJoin(hp, port, conv) ==
    IF ~conv.ok THEN [ok |-> FALSE, s |-> hp]
    ELSE IF port = <<>> THEN [ok |-> TRUE, s |-> conv.s]
    ELSE [ok |-> TRUE, s |-> JoinHostPort(conv.s, port)]

\* punycodeHost once host and port are told apart (lines 27-38)
punycodeParts(hp, hostname, port) ==
    IF ParseIP(hostname) # NoIP THEN [ok |-> TRUE, s |-> hp]
    ELSE punycodeJoin(hp, port, ToASCII(hostname))

punycodeSplit(hp, sp) ==
    IF sp.ok THEN punycodeParts(hp, sp.host, sp.port)
    ELSE punycodeParts(hp, hp, <<>>)

\* punycodeHost(host): the string and whether err is nil
punycodeHost(hp) == punycodeSplit(hp, SplitHostPort(hp))

---------------------------------------------------------------------------
(* URLs: url.Parse and URL.String as GetPunycodeURL uses them.  The model  *)
(* covers [scheme ":"] ["//" host [":" port]] path ["?" query]             *)
(* ["#" fragment]; its URLs carry no user-info and no character that       *)
(* URL.String would percent-escape in the path, query or fragment.         *)

IsLetter(c) == IsLower(c) \/ IsUpper(c)

ControlChars == {"\r", "\n", "\t", "<del>"}

\* getScheme: the index of the colon that ends the scheme, 0 when there is
\* no scheme, -1 for "missing protocol scheme"
RECURSIVE schemeScan(_, _)
schemeScan(s, i) ==
    IF i > Len(s) THEN 0
    ELSE IF IsLetter(s[i]) THEN schemeScan(s, i + 1)
    ELSE IF IsDigit(s[i]) \/ s[i] \in {"+", "-", "."}
         THEN (IF i = 1 THEN 0 ELSE schemeScan(s, i + 1))
    ELSE IF s[i] = ":" THEN (IF i = 1 THEN -1 ELSE i)
    ELSE 0

\* validOptionalPort: "" or ":" followed by digits
validOptionalPort(p) ==
    p = <<>> \/ (p[1] = ":" /\ \A i \in 2..Len(p) : IsDigit(p[i]))

\* a byte that may stand unescaped in a host (shouldEscape, encodeHost)
HostCharOK(c) ==
    \/ IsLetter(c) \/ IsDigit(c) \/ ~IsASCII(c)
    \/ c \in {"-", "_", ".", "~", "!", "$", "&", "'", "(", ")", "*", "+",
              ",", ";", "=", ":", "[", "]", "<", ">", "\"", "%"}

\* parseHost; rb and co are where the last "]" and the last ":" stand
validURLHostAt(h, rb, co) ==
    /\ \A i \in 1..Len(h) : HostCharOK(h[i])
    /\ IF Len(h) > 0 /\ h[1] = "["
       THEN rb # 0 /\ validOptionalPort(SubSeq(h, rb + 1, Len(h)))
       ELSE co # 0 => validOptionalPort(SubSeq(h, co, Len(h)))

validURLHost(h) == validURLHostAt(h, LastIndex(h, "]"), LastIndex(h, ":"))

BadURL ==
    [ok |-> FALSE, Scheme |-> <<>>, Opaque |-> <<>>, Host |-> <<>>,
     Path |-> <<>>, Query |-> <<>>]

StartsWith(s, pre) == Len(s) >= Len(pre) /\ SubSeq(s, 1, Len(pre)) = pre

\* the part of s before its first "/"
firstSegment(s) ==
    IF FirstIndex(s, "/") = 0 THEN s ELSE SubSeq(s, 1, FirstIndex(s, "/") - 1)

\* the UTF-8 bytes of the non-ASCII letters, percent-encoded
PercentPairs == { << "<e9>", <<"%","C","3","%","A","9">> >>,
                  << "<c9>", <<"%","C","3","%","8","9">> >> }

percentOf(c) == (CHOOSE pr \in PercentPairs : pr[1] = c)[2]

\* escape(host, encodeHost): the non-ASCII bytes are percent-encoded
RECURSIVE escapeHost(_)
escapeHost(h) ==
    IF h = <<>> THEN <<>>
    ELSE IF IsASCII(h[1]) THEN <<h[1]>> \o escapeHost(Tail(h))
    ELSE percentOf(h[1]) \o escapeHost(Tail(h))

\* unescape(host, encodeHost): "%XX" is taken for non-ASCII bytes only
RECURSIVE unescapeHost(_)
unescapeHost(h) ==
    IF h = <<>> THEN <<>>
    ELSE IF h[1] # "%" THEN <<h[1]>> \o unescapeHost(Tail(h))
    ELSE IF \E pr \in PercentPairs : StartsWith(h, pr[2])
    THEN <<(CHOOSE pr \in PercentPairs : StartsWith(h, pr[2]))[1]>>
         \o unescapeHost(SubSeq(h, 7, Len(h)))
    ELSE <<"<bad>">>

\* "//" authority path
parseAuthority(sch, rest, auth, query) ==
    IF ~validURLHost(auth) \/ Contains(unescapeHost(auth), "<bad>") THEN BadURL
    ELSE [ok |-> TRUE, Scheme |-> sch, Opaque |-> <<>>,
          Host |-> unescapeHost(auth),
          Path |-> SubSeq(rest, 3 + Len(auth), Len(rest)), Query |-> query]

\* what follows the scheme
parseRest(sch, rest, query) ==
    IF ~StartsWith(rest, <<"/">>) /\ sch # <<>>
    THEN [ok |-> TRUE, Scheme |-> sch, Opaque |-> rest, Host |-> <<>>,
          Path |-> <<>>, Query |-> query]
    ELSE IF ~StartsWith(rest, <<"/">>) /\ Contains(firstSegment(rest), ":")
    THEN BadURL
    ELSE IF StartsWith(rest, <<"/", "/">>)
            /\ (sch # <<>> \/ ~StartsWith(rest, <<"/", "/", "/">>))
    THEN parseAuthority(sch, rest,
                        firstSegment(SubSeq(rest, 3, Len(rest))), query)
    ELSE [ok |-> TRUE, Scheme |-> sch, Opaque |-> <<>>, Host |-> <<>>,
          Path |-> rest, Query |-> query]

\* se is the result of getScheme
parseScheme(body, se, query) ==
    IF se = -1 THEN BadURL
    ELSE IF se > 0
    THEN parseRest(toLowerCaseASCII(SubSeq(body, 1, se - 1)),
                   SubSeq(body, se + 1, Len(body)), query)
    ELSE parseRest(<<>>, body, query)

\* q is where the query or the fragment starts, 0 when there is neither
parseCut(raw, q) ==
    IF q = 0 THEN parseScheme(raw, schemeScan(raw, 1), <<>>)
    ELSE parseScheme(SubSeq(raw, 1, q - 1),
                     schemeScan(SubSeq(raw, 1, q - 1), 1),
                     SubSeq(raw, q, Len(raw)))

firstOf(a, b) == IF a = 0 THEN b ELSE IF b = 0 THEN a ELSE IF a < b THEN a ELSE b

\* url.Parse(rawURL); Query holds "?query" and "#fragment" as written
urlParse(raw) ==
    IF \E i \in 1..Len(raw) : raw[i] \in ControlChars THEN BadURL
    ELSE parseCut(raw, firstOf(FirstIndex(raw, "?"), FirstIndex(raw, "#")))

urlAuthority(p) ==
    IF (p.Scheme # <<>> \/ p.Host # <<>>) /\ (p.Host # <<>> \/ p.Path # <<>>)
    THEN <<"/", "/">> \o escapeHost(p.Host) ELSE <<>>

urlPathSep(p) ==
    IF p.Path # <<>> /\ p.Path[1] # "/" /\ p.Host # <<>> THEN <<"/">> ELSE <<>>

urlSchemeColon(p) == IF p.Scheme # <<>> THEN p.Scheme \o <<":">> ELSE <<>>

\* URL.String()
urlString(p) ==
    IF p.Opaque # <<>> THEN urlSchemeColon(p) \o p.Opaque \o p.Query
    ELSE urlSchemeColon(p) \o urlAuthority(p) \o urlPathSep(p) \o p.Path
         \o p.Query

\* punycodeHostFromURL(u), for the parsed u
punycodeHostOfParsed(parsed) ==
    IF ~parsed.ok THEN [ok |-> FALSE, s |-> <<>>]
    ELSE punycodeHost(parsed.Host)

punycodeHostFromURL(raw) == punycodeHostOfParsed(urlParse(raw))

\* GetPunycodeURL once the URL is parsed and its host converted (lines 53-61)
punycodeURLOf(parsed, h) ==
    IF ~parsed.ok THEN [ok |-> TRUE, s |-> <<>>]
    ELSE IF ~h.ok THEN [ok |-> FALSE, s |-> <<>>]
    ELSE [ok |-> TRUE, s |-> urlString([parsed EXCEPT !.Host = h.s])]

\* GetPunycodeURL(u): a URL that does not parse yields "" and a nil error
GetPunycodeURL(raw) == punycodeURLOf(urlParse(raw), punycodeHostFromURL(raw))

\* splitHostPort of net/url, for a host whose last colon stands at colon
urlSplitAt(h, colon) ==
    IF colon # 0 /\ validOptionalPort(SubSeq(h, colon, Len(h)))
    THEN [host |-> SubSeq(h, 1, colon - 1), port |-> SubSeq(h, colon + 1, Len(h))]
    ELSE [host |-> h, port |-> <<>>]

stripBrackets(h) ==
    IF Len(h) >= 2 /\ h[1] = "[" /\ h[Len(h)] = "]"
    THEN SubSeq(h, 2, Len(h) - 1) ELSE h

\* URL.Hostname() and URL.Port()
urlHostname(h) == stripBrackets(urlSplitAt(h, LastIndex(h, ":")).host)
urlPort(h)     == urlSplitAt(h, LastIndex(h, ":")).port

\* getHost once the punycoded host ph is computed (lines 117-120)
getHostWith(parsed, ph) ==
    IF urlPort(parsed.Host) = <<>>
    THEN JoinHostPort(urlHostname(parsed.Host), DefaultPort)
    ELSE ph.s

\* getHost(parsedURL) (lines 115-121)
getHost(parsed) == getHostWith(parsed, punycodeHostFromURL(urlString(parsed)))

---------------------------------------------------------------------------
(* The header codec: readHeader, getHeader (client.go) and the status      *)
(* table (gemini.go).                                                      *)
(* A stream is the sequence of results its Read calls give for a one-byte  *)
(* buffer: a character (one byte read), "<zero>" (no byte, no error) or    *)
(* "<err>" (a read error); past its end every Read reports io.EOF.         *)

URLMaxLength  == 1024
MetaMaxLength == 1024

CRLF == <<"\r", "\n">>

HasSuffix(s, suf) ==
    Len(s) >= Len(suf) /\ SubSeq(s, Len(s) - Len(suf) + 1, Len(s)) = suf

HeaderFailed == [ok |-> FALSE, line |-> <<>>, rest |-> <<>>]

\* a Read that gives one byte which cannot complete the delimiter: the
\* iteration appends the byte and goes on
PlainRead(x) == x \notin {"\n", "<zero>", "<err>"}

\* how many Reads from call i on are plain, up to the first that is not
plainRun(st, i) ==
    IF \E j \in i..Len(st) : ~PlainRead(st[j])
    THEN (CHOOSE j \in i..Len(st) :
             ~PlainRead(st[j]) /\ \A k \in i..(j-1) : PlainRead(st[k])) - i
    ELSE Len(st) - i + 1

\* the loop of readHeader from Read call i on; buf is the one-byte buffer.
\* A run of n plain Reads is n iterations that append their bytes, taken at
\* once; every other Read is one iteration.
RECURSIVE readLoop(_, _, _, _)
readLoop(st, i, line, buf) ==
    IF i > Len(st) THEN HeaderFailed
    ELSE IF plainRun(st, i) > 0
    THEN readLoop(st, i + plainRun(st, i),
                  line \o SubSeq(st, i, i + plainRun(st, i) - 1),
                  st[i + plainRun(st, i) - 1])
    ELSE IF st[i] = "<err>" THEN HeaderFailed
    ELSE LET b  == IF st[i] = "<zero>" THEN buf ELSE st[i]
             l2 == Append(line, b)
         IN  IF HasSuffix(l2, CRLF)
             THEN [ok |-> TRUE, line |-> SubSeq(l2, 1, Len(l2) - 2),
                   rest |-> SubSeq(st, i + 1, Len(st))]
             ELSE readLoop(st, i + 1, l2, b)

\* a readHeader that has read one byte past the delimiter when it returns
readAhead(r) ==
    IF r.ok /\ r.rest # <<>> THEN [r EXCEPT !.rest = Tail(r.rest)] ELSE r
readHeaderAhead(st) == readAhead(readLoop(st, 1, <<>>, "<nul>"))

\* readHeader(conn): the line, and what is left of the stream
readHeader(st) == readLoop(st, 1, <<>>, "<nul>")

\* unicode.IsSpace on the characters of the model
IsSpace(c) == c \in {" ", "\t", "\n", "\r", "<vt>", "\f"}

\* strings.Fields(s)
RECURSIVE Fields(_)
Fields(s) ==
    IF s = <<>> THEN <<>>
    ELSE IF IsSpace(s[1]) THEN Fields(Tail(s))
    ELSE LET n == IF \E i \in 1..Len(s) : IsSpace(s[i])
                  THEN (CHOOSE i \in 1..Len(s) :
                            IsSpace(s[i]) /\ \A j \in 1..(i-1) : ~IsSpace(s[j])) - 1
                  ELSE Len(s)
         IN  <<SubSeq(s, 1, n)>> \o Fields(SubSeq(s, n + 1, Len(s)))

atoiDigits(neg, digits) ==
    IF Len(digits) > 0 /\ \A i \in 1..Len(digits) : IsDigit(digits[i])
    THEN [ok |-> TRUE,
          val |-> IF neg THEN 0 - NumVal(digits, 10) ELSE NumVal(digits, 10)]
    ELSE [ok |-> FALSE, val |-> 0]

\* strconv.Atoi(s): an optional sign, then one or more digits
Atoi(s) ==
    IF Len(s) > 0 /\ s[1] \in {"+", "-"} THEN atoiDigits(s[1] = "-", Tail(s))
    ELSE atoiDigits(FALSE, s)

noHeader(k) == [kind |-> k, status |-> 0, meta |-> <<>>, rest |-> <<>>]

\* a getHeader that refuses a meta of MetaMaxLength bytes already
headerOfLimitIncluded(status, meta, rest) ==
    IF ~status.ok THEN noHeader("error")
    ELSE IF Len(meta) >= MetaMaxLength THEN noHeader("error")
    ELSE [kind |-> "header", status |-> status.val, meta |-> meta,
          rest |-> rest]

\* the end of getHeader: the status is parsed, the meta cut out (lines 384-399)
headerOf(status, meta, rest) ==
    IF ~status.ok THEN noHeader("error")
    ELSE IF Len(meta) > MetaMaxLength THEN noHeader("error")
    ELSE [kind |-> "header", status |-> status.val, meta |-> meta,
          rest |-> rest]

\* a getHeader that lets a line of one field pass without the space after it
headerOfFieldsNoSpaceTest(line, fields, rest) ==
    IF Len(fields) = 0 THEN noHeader("panic")
    ELSE headerOf(Atoi(fields[1]),
                  IF Len(line) <= 3 THEN <<>>
                  ELSE SubSeq(line, Len(fields[1]) + 2, Len(line)),
                  rest)

\* getHeader once the line is split into fields (lines 380-394); indexing an
\* empty line or an empty field list is a run-time panic
headerOfFields(line, fields, rest) ==
    IF Len(fields) < 2 /\ Len(line) = 0 THEN noHeader("panic")
    ELSE IF Len(fields) < 2 /\ line[Len(line)] # " " THEN noHeader("error")
    ELSE IF Len(fields) = 0 THEN noHeader("panic")
    ELSE headerOf(Atoi(fields[1]),
                  IF Len(line) <= 3 THEN <<>>
                  ELSE SubSeq(line, Len(fields[1]) + 2, Len(line)),
                  rest)

headerOfRead(r) ==
    IF ~r.ok THEN noHeader("error")
    ELSE headerOfFields(r.line, Fields(r.line), r.rest)

\* getHeader(conn): kind is "header", "error" or "panic"
getHeader(st) == headerOfRead(readHeader(st))

DecimalDigits == <<"0", "1", "2", "3", "4", "5", "6", "7", "8", "9">>

\* fmt's %d of an int
RECURSIVE FormatInt(_)
FormatInt(n) ==
    IF n < 0 THEN <<"-">> \o FormatInt(0 - n)
    ELSE IF n < 10 THEN <<DecimalDigits[n + 1]>>
    ELSE FormatInt(n \div 10) \o <<DecimalDigits[(n % 10) + 1]>>

\* what writeResponse writes for a Response with no Body:
\* fmt.Fprintf(conn, "%d %s\r\n", response.Status, response.Meta)
headerLineOf(status, meta) == FormatInt(status) \o <<" ">> \o meta \o CRLF

\* the keys of statusText
StatusTable ==
    {10, 11, 20, 30, 31, 40, 41, 42, 43, 44, 50, 51, 52, 53, 59, 60, 61, 62}

\* IsStatusValid(status)
IsStatusValid(status) == status \in StatusTable

\* Go's integer division a / b for b > 0: the quotient is cut towards zero
GoQuo(a, b) == IF a >= 0 THEN a \div b ELSE 0 - ((0 - a) \div b)

\* a SimplifyStatus that forgets to multiply the decade by ten again
SimplifyStatusDecadeOnly(status) == GoQuo(status, 10)

\* SimplifyStatus(status): (status / 10) * 10
SimplifyStatus(status) == GoQuo(status, 10) * 10

\* StatusInRange(status), as written: "status < 10 && status > 69"
StatusInRange(status) == IF status < 10 /\ status > 69 THEN FALSE ELSE TRUE

\* CleanStatus(status)
CleanStatus(status) ==
    IF ~IsStatusValid(status) /\ StatusInRange(status)
    THEN SimplifyStatus(status)
    ELSE status

---------------------------------------------------------------------------
(* Named strings: the hosts and candidate names of the specification's     *)
(* scenarios, and IP literals.                                             *)

WwwExampleCom == <<"w","w","w",".","e","x","a","m","p","l","e",".","c","o","m">>
StarExampleCom == <<"*",".","e","x","a","m","p","l","e",".","c","o","m">>
ExampleCom == <<"e","x","a","m","p","l","e",".","c","o","m">>
ABExampleCom == <<"a",".","b",".","e","x","a","m","p","l","e",".","c","o","m">>
OtherOrg == <<"o","t","h","e","r",".","o","r","g">>
ExampleComDot == <<"e","x","a","m","p","l","e",".","c","o","m",".">>
ExampleComDotDot == <<"e","x","a","m","p","l","e",".","c","o","m",".",".">>
UpperExampleComDot == <<"E","x","a","m","p","l","e",".","C","O","M",".">>
IPv4Text == <<"1",".","2",".","3",".","4">>
IPv4Bracketed == <<"[","1",".","2",".","3",".","4","]">>
IPv6Text == <<":",":","1">>
IPv6Bracketed == <<"[",":",":","1","]">>
IPv6Long == <<"0",":","0",":","0",":","0",":","0",":","0",":","0",":","1">>
IPv4Mapped == <<":",":","f","f","f","f",":","1",".","2",".","3",".","4">>
IPv4Other == <<"1",".","2",".","3",".","5">>

\* "<e9>" stands for one non-ASCII letter (e acute) and "<c9>" for its
\* upper-case form: neither is in 'A'..'Z', so toLowerCaseASCII leaves both
IdnLower == <<"<e9>",".","a">>
IdnUpper == <<"<c9>",".","a">>

---------------------------------------------------------------------------
(* Specification SpecVerify: one call of verifyHostname on a certificate   *)
(* and a host drawn from bounded sets.                                     *)

\* every string of at most MaxNameLen characters over a letter in both
\* cases, the label separator and the wildcard
ShortNames == StringsUpTo({"a", "A", ".", "*"}, MaxNameLen)

ScenarioHosts ==
    {WwwExampleCom, ExampleCom, ABExampleCom, ExampleComDot, ExampleComDotDot,
     UpperExampleComDot, OtherOrg, StarExampleCom, IdnLower, IdnUpper,
     <<"-","a">>, <<"a","-","b">>, <<"a","_","b">>, <<"a","1">>, <<"a"," ">>}

IPHosts ==
    {IPv4Text, IPv4Bracketed, IPv6Text, IPv6Bracketed, IPv6Long, IPv4Mapped,
     IPv4Other, <<"[","]">>, <<"[","a","]">>, <<":",":">>}

VerifyHosts == ShortNames \cup ScenarioHosts \cup IPHosts

ScenarioNames ==
    {StarExampleCom, ExampleCom, ExampleComDot, OtherOrg, WwwExampleCom,
     IdnLower, <<"-","a">>, <<"a","_","b">>, <<"*">>, <<"a","*">>,
     <<"a"," ">>, <<"a",".","*">>}

CandidateNames == ShortNames \cup ScenarioNames

\* the candidate names that appear in two-entry lists
PairNames ==
    {<<>>, <<".">>, <<"a">>, <<"*",".","a">>, <<"a",".","a">>, ExampleCom,
     StarExampleCom, OtherOrg}

IPValues == {ParseIP(IPv4Text), ParseIP(IPv6Text), ParseIP(IPv4Other)}

\* the validity window plays no part in verifyHostname
VCert(dns, ips, cn, san) == Cert(dns, ips, cn, san, 0, 0)

\* certificates as the TLS layer can hand them over: DNS names and IP
\* addresses are read from the SAN extension, so a certificate without the
\* extension has neither
VerifyCerts ==
    \* one DNS name, no usable common name
    {VCert(<<p>>, <<>>, <<>>, TRUE) : p \in CandidateNames}
    \* two DNS names
    \cup {VCert(<<p, q>>, <<>>, <<>>, TRUE) : p \in PairNames, q \in PairNames}
    \* no SAN extension: the common name alone
    \cup {VCert(<<>>, <<>>, cn, FALSE) : cn \in CandidateNames}
    \* a SAN extension and a common name
    \cup {VCert(dns, <<>>, cn, TRUE) :
            dns \in {<<>>, <<OtherOrg>>, <<ExampleCom>>, <<StarExampleCom>>},
            cn \in {ExampleCom, WwwExampleCom, <<"a">>, <<"a"," ">>}}
    \* IP addresses, beside DNS names and a common name that spell an IP
    \cup {VCert(dns, ips, cn, TRUE) :
            dns \in {<<>>, <<IPv4Text>>, <<IPv6Text, IPv4Bracketed>>},
            ips \in {<<>>} \cup {<<a>> : a \in IPValues}
                    \cup {<<a, b>> : a \in IPValues, b \in IPValues},
            cn \in {<<>>, IPv4Text}}
    \cup {VCert(<<>>, <<>>, cn, FALSE) : cn \in {IPv4Text, IPv6Text}}

NoCert == VCert(<<>>, <<>>, <<>>, FALSE)
NoDeadline == -1

\* no SetReadTimeout call was made
NoCall == [called |-> FALSE, d |-> 0, at |-> 0]

\* no writeResponse call was made
NoServed == [given |-> FALSE, Status |-> 0, Meta |-> <<>>]

\* a single fetch: nothing is scheduled
NoSched == [running |-> 0, saved |-> <<>>, env |-> <<>>]

\* neither QueryEscape nor QueryUnescape was called
NoQuery == [q |-> <<>>, called |-> {}, escaped |-> <<>>, arg |-> <<>>,
            unescaped |-> <<>>, err |-> FALSE]

\* no status helper was called
NoHelper == [called |-> {}, status |-> 0, SimplifyStatus |-> 0,
             StatusInRange |-> FALSE, CleanStatus |-> 0]

EmptyResponse == [Status |-> 0, Meta |-> <<>>, Body |-> "nil", Cert |-> NoCert,
                  conn |-> "nil"]

ZeroClient ==
    [NoTimeCheck |-> FALSE, NoHostnameCheck |-> FALSE, Insecure |-> FALSE,
     AllowInvalidStatuses |-> FALSE, ConnectTimeout |-> 0, ReadTimeout |-> 0]

\* no fetch is running
FetchIdle ==
    /\ client = ZeroClient
    /\ pc = "idle"
    /\ now = 0
    /\ start = 0
    /\ inHost = <<>>
    /\ inURL = <<>>
    /\ inPEM = "empty"
    /\ host = <<>>
    /\ u = <<>>
    /\ sock = "none"
    /\ deadline = NoDeadline
    /\ peer = NoCert
    /\ wire = <<>>
    /\ sent = <<>>
    /\ stream = <<>>
    /\ res = EmptyResponse
    /\ retRes = "nil"
    /\ retErr = "none"
    /\ lastSet = NoCall

InitVerify ==
    /\ vcert \in VerifyCerts
    /\ vhost \in VerifyHosts
    /\ vres = "none"
    /\ FetchIdle
    /\ served = NoServed
    /\ helper = NoHelper
    /\ qcall = NoQuery
    /\ sched = NoSched

\* the call: verifyHostname(vcert, vhost)
Verify ==
    /\ vres = "none"
    /\ vres' = IF verifyHostname(vcert, vhost) THEN "ok" ELSE "mismatch"
    /\ UNCHANGED <<vcert, vhost>>
    /\ UNCHANGED fetchVars
    /\ UNCHANGED callVars

NextVerify == Verify

SpecVerify == InitVerify /\ [][NextVerify]_vars

---------------------------------------------------------------------------
(* Properties of verifyHostname (specification SpecVerify).                *)

Verified   == vres # "none"
HostIsIP   == ParseIP(candidateIPOf(vhost)) # NoIP
HostIP     == ParseIP(candidateIPOf(vhost))

\* the matching rule as the specification words it, for one candidate p
Labels(name) == Split(toLowerCaseASCII(name), ".")

LabelwiseMatch(h, p) ==
    LET H == Labels(TrimSuffixDot(h))
        P == Labels(p)
    IN  /\ Len(H) = Len(P)
        /\ \A i \in 1..Len(P) : (i = 1 /\ P[1] = <<"*">>) \/ P[i] = H[i]

BothPassGrammar(h, p) == validHostnameInput(h) /\ validHostnamePattern(p)

FoldedEqual(h, p) == toLowerCaseASCII(h) = toLowerCaseASCII(p)

EmptyOrDot(name) == name = <<>> \/ name = <<".">>

EntryMatchesAsClaimed(h, p) ==
    \/ (BothPassGrammar(h, p) /\ LabelwiseMatch(h, p))
    \/ (~BothPassGrammar(h, p) /\ FoldedEqual(h, p))

EntryMatches(h, p) ==
    \/ (BothPassGrammar(h, p) /\ LabelwiseMatch(h, p))
    \/ (~BothPassGrammar(h, p) /\ FoldedEqual(h, p)
            /\ ~EmptyOrDot(h) /\ ~EmptyOrDot(p))

SomeEntryMatches(h, L) == \E i \in 1..Len(L) : EntryMatches(h, L[i])

\* C4 as stated: for a non-IP host, verifyHostname returns nil iff some
\* candidate matches label by label (both sides valid) or is equal after
\* case folding (a side invalid).  Fails on an empty or bare-dot name.
C4_VerifyIffSomeEntry_AsStated ==
    (Verified /\ ~HostIsIP) =>
        (vres = "ok" <=>
            \E i \in 1..Len(candidateNames(vcert)) :
                EntryMatchesAsClaimed(vhost, candidateNames(vcert)[i]))

\* C4 (amended): for a non-IP host, verifyHostname returns nil iff some
\* candidate matches label by label with equal label count (both sides pass
\* the grammar; the host's one trailing dot stripped) or, a side failing the
\* grammar, the two are equal after ASCII case folding and neither is empty
\* or a bare dot.
C4_VerifyIffSomeEntry ==
    (Verified /\ ~HostIsIP) =>
        (vres = "ok" <=> SomeEntryMatches(vhost, candidateNames(vcert)))

\* an empty host against a certificate that lists the empty name is refused
C4_Witness ==
    /\ vres = "mismatch"
    /\ vhost = <<>>
    /\ candidateNames(vcert) = <<<<>>, <<"a">>>>

\* C5: a leading wildcard label stands for exactly one host label:
\* *.example.com verifies www.example.com and verifies neither example.com
\* nor a.b.example.com; whenever a wildcard candidate verifies a host, the
\* host has exactly as many labels as the candidate.
C5_WildcardOneLabel ==
    LET L == candidateNames(vcert)
    IN  (Verified /\ ~HostIsIP /\ Len(L) = 1 /\ validHostnamePattern(L[1])
            /\ Split(L[1], ".")[1] = <<"*">>) =>
        /\ (L[1] = StarExampleCom /\ vhost = WwwExampleCom => vres = "ok")
        /\ (L[1] = StarExampleCom /\ vhost \in {ExampleCom, ABExampleCom}
                => vres = "mismatch")
        /\ (vres = "ok" /\ validHostnameInput(vhost) =>
                Len(Split(TrimSuffixDot(vhost), ".")) = Len(Split(L[1], ".")))

C5_Witness ==
    /\ vres = "ok"
    /\ vhost = WwwExampleCom
    /\ vcert.DNSNames = <<StarExampleCom>>
    /\ vcert.HasSAN

C7_IPHostOnlyIPList ==
    (Verified /\ HostIsIP) =>
        (vres = "ok" <=>
            \E i \in 1..Len(vcert.IPAddresses) : vcert.IPAddresses[i] = HostIP)

\* an IP host spelled exactly like a DNS name and the common name is refused
C7_Witness ==
    /\ vres = "mismatch"
    /\ vhost = IPv4Text
    /\ vcert.DNSNames = <<IPv4Text>>
    /\ vcert.CommonName = IPv4Text
    /\ vcert.IPAddresses = <<ParseIP(IPv4Other)>>

---------------------------------------------------------------------------
(* Specification SpecHost: Client.Fetch from its call to the call of       *)
(* FetchWithHost, which is where getHost turns the URL into the host to    *)
(* dial.                                                                   *)

UpperACom == <<"A",".","c","o","m">>

HostSchemes == {<<"g","e","m","i","n","i",":","/","/">>, <<"/","/">>}
HostNames ==
    {<<"a",".","c","o","m">>, UpperACom, IdnLower, IdnUpper,
     <<"x","n","-","-","9","c","a",".","c","o","m">>,
     <<"x","n","-","-","z","z",".","c","o","m">>,
     IPv4Text, IPv6Bracketed, <<>>}
HostPorts == {<<>>, <<":">>, <<":","1","9","6","5">>, <<":","1","2","3">>}
HostTails == {<<>>, <<"/">>, <<"/","x","?","q">>, <<"?","q">>}

\* the raw URLs handed to Fetch
HostURLs ==
    {sch \o hn \o pt \o tl :
        sch \in HostSchemes, hn \in HostNames, pt \in HostPorts,
        tl \in HostTails}
    \cup {<<":","a">>, <<"a",".","c","o","m","/","x">>}

InitHost ==
    /\ inURL \in HostURLs
    /\ pc = "Fetch"
    /\ client = ZeroClient
    /\ now = 0
    /\ start = 0
    /\ inHost = <<>>
    /\ inPEM = "empty"
    /\ host = <<>>
    /\ u = <<>>
    /\ sock = "none"
    /\ deadline = NoDeadline
    /\ peer = NoCert
    /\ wire = <<>>
    /\ sent = <<>>
    /\ stream = <<>>
    /\ res = EmptyResponse
    /\ retRes = "nil"
    /\ retErr = "none"
    /\ lastSet = NoCall
    /\ served = NoServed
    /\ helper = NoHelper
    /\ qcall = NoQuery
    /\ sched = NoSched
    /\ vcert = NoCert
    /\ vhost = <<>>
    /\ vres = "none"

\* Client.Fetch for the parsed URL (lines 138-142)
fetchWith(parsed) ==
    IF ~parsed.ok
    THEN /\ pc' = "done"
         /\ retRes' = "nil"
         /\ retErr' = "parse"
         /\ UNCHANGED inHost
    ELSE /\ inHost' = getHost(parsed)
         /\ pc' = "idle"
         /\ UNCHANGED <<retRes, retErr>>

\* Client.Fetch up to its call of FetchWithHost (lines 137-143)
Fetch ==
    /\ pc = "Fetch"
    /\ fetchWith(urlParse(inURL))
    /\ UNCHANGED <<client, now, start, inURL, inPEM, host, u, sock, deadline,
                   peer, wire, stream, res>>
    /\ UNCHANGED verifyVars
    /\ UNCHANGED sent
    /\ UNCHANGED callVars

NextHost == Fetch

SpecHost == InitHost /\ [][NextHost]_vars

\* the host and the port of the URL, as net/url tells them apart
URLHostname == urlHostname(urlParse(inURL).Host)
URLPort     == urlPort(urlParse(inURL).Host)

\* C16: getHost returns the URL's host in punycoded form and always with a
\* port: the URL's own port when it has one, 1965 otherwise, an IPv6 literal
\* kept in square brackets, the path and the query ignored.
C16_GetHostPunycodedWithPort ==
    (pc = "idle" /\ ToASCII(URLHostname).ok) =>
        inHost = JoinHostPort(ToASCII(URLHostname).s,
                              IF URLPort = <<>> THEN DefaultPort ELSE URLPort)

---------------------------------------------------------------------------
(* Specification Spec: one fetch, Client.FetchWithHostAndCert, from the    *)
(* call to its return, against a server that picks its certificate and its *)
(* response.                                                               *)

ACom        == <<"a",".","c","o","m">>
IdnCom      == <<"<e9>",".","c","o","m">>
PunyCom     == <<"x","n","-","-","9","c","a",".","c","o","m">>
BadPunyCom  == <<"x","n","-","-","z","z",".","c","o","m">>
GeminiSlashes == <<"g","e","m","i","n","i",":","/","/">>
URLACom     == GeminiSlashes \o ACom \o <<"/">>
URLIdn      == GeminiSlashes \o IdnCom \o <<"/","x">>
URLBadPuny  == GeminiSlashes \o BadPunyCom \o <<"/">>
URLNoScheme == ACom \o <<"/","x">>
URLUnparsable == <<":","a">>

\* n bytes of path
Pad(n) == [i \in 1..n |-> "a"]

\* URLs of exactly URLMaxLength bytes and of one byte more
URLAtLimit   == URLACom \o Pad(URLMaxLength - Len(URLACom))
URLOverLimit == URLACom \o Pad(URLMaxLength + 1 - Len(URLACom))

Clients ==
    [NoTimeCheck : BOOLEAN, NoHostnameCheck : BOOLEAN, Insecure : BOOLEAN,
     AllowInvalidStatuses : BOOLEAN,
     ConnectTimeout : {0, SomeConnectTimeout},
     ReadTimeout : {0, SomeReadTimeout}]

\* the arguments of the call: host, rawURL, certPEM/keyPEM
FetchInputs ==
    {[host |-> ACom,                     url |-> URLACom,       pem |-> "empty"],
     [host |-> IdnCom,                   url |-> URLIdn,        pem |-> "empty"],
     [host |-> PunyCom \o <<":">> \o DefaultPort,
                                         url |-> URLIdn,        pem |-> "valid"],
     [host |-> IPv4Text \o <<":">> \o DefaultPort,
                                         url |-> URLNoScheme,   pem |-> "empty"],
     [host |-> ACom,                     url |-> URLUnparsable, pem |-> "empty"],
     [host |-> ACom,                     url |-> URLBadPuny,    pem |-> "empty"],
     [host |-> BadPunyCom,               url |-> URLACom,       pem |-> "empty"],
     [host |-> ACom,                     url |-> URLACom,       pem |-> "invalid"],
     [host |-> ACom,                     url |-> URLAtLimit,    pem |-> "empty"],
     [host |-> ACom,                     url |-> URLOverLimit,  pem |-> "empty"]}

\* the leaf certificates a server may present
PeerCerts ==
    {Cert(<<ACom>>, <<>>, <<>>, TRUE, PeerNotBefore, PeerNotAfter),
     Cert(<<IdnCom>>, <<>>, <<>>, TRUE, PeerNotBefore, PeerNotAfter),
     Cert(<<OtherOrg>>, <<>>, <<>>, TRUE, PeerNotBefore, PeerNotAfter),
     Cert(<<>>, <<ParseIP(IPv4Text)>>, <<>>, TRUE, PeerNotBefore, PeerNotAfter)}

\* what a server may send; SpecHeader goes through the header lines
ServerStreams ==
    {<<"2","0"," ","a">> \o CRLF \o <<"b","o","d","y">>,
     <<"2","0">> \o CRLF,
     <<"2","1"," ","a">> \o CRLF,
     <<"a","a","\t","m">> \o CRLF,
     <<"2","<err>">>,
     CRLF,
     <<>>}

Init ==
    /\ client \in Clients
    /\ \E in \in FetchInputs :
          /\ inHost = in.host
          /\ inURL = in.url
          /\ inPEM = in.pem
    /\ now \in 0..MaxStart
    /\ pc = "idle"
    /\ start = 0
    /\ host = <<>>
    /\ u = <<>>
    /\ sock = "none"
    /\ deadline = NoDeadline
    /\ peer = NoCert
    /\ wire = <<>>
    /\ sent = <<>>
    /\ stream = <<>>
    /\ res = EmptyResponse
    /\ retRes = "nil"
    /\ retErr = "none"
    /\ lastSet = NoCall
    /\ served = NoServed
    /\ helper = NoHelper
    /\ qcall = NoQuery
    /\ sched = NoSched
    /\ vcert = NoCert
    /\ vhost = <<>>
    /\ vres = "none"

\* a failure that starts the fetch over instead of returning
ReturnErrorAndRetry(kind) ==
    /\ pc' = "idle"
    /\ retRes' = "nil"
    /\ retErr' = kind

\* return nil, err
ReturnError(kind) ==
    /\ pc' = "done"
    /\ retRes' = "nil"
    /\ retErr' = kind

\* a failure path that forgets conn.Close()
leaveConn(s) == s

\* conn.Close()
closeConn(s) == "closed"

\* the host with the default port added when it has none (lines 181-186)
withPort(h) ==
    IF ~SplitHostPort(h).ok THEN JoinHostPort(h, DefaultPort) ELSE h

\* a length test that already refuses a URL of URLMaxLength bytes
urlTooLongAtLimit(s) == Len(s) >= URLMaxLength

\* "len(u) > URLMaxLength" (line 176)
urlTooLong(s) == Len(s) > URLMaxLength

\* FetchWithHostAndCert up to the call of connect (lines 169-210), for the
\* punycoded URL pu and the punycoded host ph
beginWith(pu, ph) ==
    /\ u' = pu.s
    /\ IF ~pu.ok
       THEN ReturnError("punycode-url") /\ UNCHANGED <<host, start>>
       ELSE IF urlTooLong(pu.s)
       THEN ReturnError("url-too-long") /\ UNCHANGED <<host, start>>
       ELSE IF ~ph.ok
       THEN ReturnError("punycode-host") /\ UNCHANGED <<host, start>>
       ELSE IF inPEM = "invalid"
       THEN ReturnError("keypair") /\ UNCHANGED <<host, start>>
       ELSE /\ host' = ph.s
            /\ start' = now
            /\ pc' = "dial"
            /\ UNCHANGED <<retRes, retErr>>

Begin ==
    /\ pc = "idle"
    /\ beginWith(GetPunycodeURL(inURL), punycodeHost(withPort(inHost)))
    /\ UNCHANGED <<client, now, inHost, inURL, inPEM, sock, deadline, peer,
                   wire, stream, res>>
    /\ UNCHANGED verifyVars
    /\ UNCHANGED sent
    /\ UNCHANGED callVars

\* where connect goes once the hostname block is passed (lines 340-341)
afterHostCheck(c) == IF ~c.NoTimeCheck THEN "notBefore" ELSE "armSend"

\* a connect that returns the connection right after the handshake for
\* every client, as it does for an Insecure one
afterDialSkipsChecks(c) == "armSend"

\* connect without the Insecure shortcut of lines 318-320
afterDialChecksAlways(c) ==
    IF ~c.NoHostnameCheck THEN "verifyHost" ELSE afterHostCheck(c)

\* where connect goes once the handshake is done (lines 318-341)
afterDial(c) ==
    IF c.Insecure THEN "armSend"
    ELSE IF ~c.NoHostnameCheck THEN "verifyHost"
    ELSE afterHostCheck(c)

\* the dialer gives up once ConnectTimeout has passed
dialTimedOut(c) == c.ConnectTimeout # 0 /\ now - start > c.ConnectTimeout

\* connect: tls.DialWithDialer fails (lines 305-309)
DialFail ==
    /\ pc = "dial"
    /\ ReturnError("dial")
    /\ UNCHANGED <<client, now, start, inHost, inURL, inPEM, host, u, sock,
                   deadline, peer, wire, stream, res>>
    /\ UNCHANGED verifyVars
    /\ UNCHANGED sent
    /\ UNCHANGED callVars

\* connect: the handshake completes, the read deadline is set and the
\* peer's leaf certificate is kept (lines 305-320)
DialOK ==
    /\ pc = "dial"
    /\ ~dialTimedOut(client)
    /\ \E c \in PeerCerts :
          /\ peer' = c
          /\ res' = [res EXCEPT !.conn = "conn", !.Cert = c]
    /\ sock' = "open"
    /\ deadline' = IF client.ReadTimeout # 0 THEN now + client.ReadTimeout
                   ELSE NoDeadline
    /\ pc' = afterDial(client)
    /\ UNCHANGED <<client, now, start, inHost, inURL, inPEM, host, u, wire,
                   stream, retRes, retErr>>
    /\ UNCHANGED verifyVars
    /\ UNCHANGED sent
    /\ UNCHANGED callVars

\* a check of the certificate against the host of the request URL
connHostnameOfURL == urlHostname(urlParse(u).Host)

\* the hostname the certificate is checked against (line 325)
connHostname == SplitHostPort(host).host

\* the second try, with the Unicode form uni of the hostname (lines 329-337)
hostnameErrorUnicode(c, uni) ==
    IF ~uni.ok THEN "hostname-no-unicode"
    ELSE IF ~verifyHostname(c, uni.s) THEN "hostname-unicode"
    ELSE "hostname"

\* the error of the hostname block of connect, "none" when it lets the
\* connection pass (lines 327-338)
hostnameError(c, hostname) ==
    IF verifyHostname(c, hostname) THEN "none"
    ELSE hostnameErrorUnicode(c, ToUnicode(hostname))

verifyHostWith(err) ==
    IF err = "none"
    THEN pc' = afterHostCheck(client) /\ UNCHANGED <<retRes, retErr>>
    ELSE ReturnError(err)

\* connect: verify hostname (lines 322-339)
VerifyHost ==
    /\ pc = "verifyHost"
    /\ verifyHostWith(hostnameError(peer, connHostname))
    /\ UNCHANGED <<client, now, start, inHost, inURL, inPEM, host, u, sock,
                   deadline, peer, wire, stream, res>>
    /\ UNCHANGED verifyVars
    /\ UNCHANGED sent
    /\ UNCHANGED callVars

\* cert.NotBefore.After(t) (line 342)
certForFuture(c, t) == c.NotBefore > t

\* an expiry test that already refuses the instant NotAfter itself
certExpiredAtBoundary(c, t) == c.NotAfter <= t

\* cert.NotAfter.Before(t) (line 344)
certExpired(c, t)   == c.NotAfter < t

\* connect: verify expiry, first test (lines 341-343)
CheckNotBefore ==
    /\ pc = "notBefore"
    /\ IF certForFuture(peer, now)
       THEN ReturnError("cert-future")
       ELSE pc' = "notAfter" /\ UNCHANGED <<retRes, retErr>>
    /\ UNCHANGED <<client, now, start, inHost, inURL, inPEM, host, u, sock,
                   deadline, peer, wire, stream, res>>
    /\ UNCHANGED verifyVars
    /\ UNCHANGED sent
    /\ UNCHANGED callVars

\* connect: verify expiry, second test with its own time.Now() (lines 344-349)
CheckNotAfter ==
    /\ pc = "notAfter"
    /\ IF certExpired(peer, now)
       THEN ReturnError("cert-expired")
       ELSE pc' = "armSend" /\ UNCHANGED <<retRes, retErr>>
    /\ UNCHANGED <<client, now, start, inHost, inURL, inPEM, host, u, sock,
                   deadline, peer, wire, stream, res>>
    /\ UNCHANGED verifyVars
    /\ UNCHANGED sent
    /\ UNCHANGED callVars


\* a test that forgets ReadTimeout and re-arms the deadline whenever
\* ConnectTimeout is set
phaseTimeoutIgnoringRead(c) == c.ConnectTimeout # 0

\* "c.ReadTimeout == 0 && c.ConnectTimeout != 0" (lines 217, 226, 233, 242)
phaseTimeout(c) == c.ReadTimeout = 0 /\ c.ConnectTimeout # 0

\* a deadline counted from the time it is set instead of from start
phaseDeadlineFromNow(c, st) == now + c.ConnectTimeout

\* start.Add(c.ConnectTimeout) (lines 219, 235)
phaseDeadline(c, st) == st + c.ConnectTimeout

\* a read or write on the connection fails once its deadline has passed
ioTimedOut == deadline # NoDeadline /\ now > deadline

\* FetchWithHostAndCert: the deadline for sending the request (lines 217-220)
ArmSend ==
    /\ pc = "armSend"
    /\ deadline' = IF phaseTimeout(client) THEN phaseDeadline(client, start)
                   ELSE deadline
    /\ pc' = "send"
    /\ UNCHANGED <<client, now, start, inHost, inURL, inPEM, host, u, sock,
                   peer, wire, stream, res, retRes, retErr>>
    /\ UNCHANGED verifyVars
    /\ UNCHANGED sent
    /\ UNCHANGED callVars

\* sendRequest fails: the connection is closed (lines 221-225)
SendFail ==
    /\ pc = "send"
    /\ sock' = closeConn(sock)
    /\ ReturnError("send")
    /\ UNCHANGED <<client, now, start, inHost, inURL, inPEM, host, u, deadline,
                   peer, wire, stream, res>>
    /\ UNCHANGED verifyVars
    /\ UNCHANGED sent
    /\ UNCHANGED callVars

\* a sendRequest that writes the URL and the delimiter one after the other
requestWritesInTwo(requestURL) == <<requestURL, CRLF>>

\* the writes of sendRequest: fmt.Fprintf(conn, "%s\r\n", requestURL) formats
\* the line and hands it to conn.Write in one call (line 353)
requestWrites(requestURL) == <<requestURL \o CRLF>>

\* sendRequest writes the request line; the deadline is undone and set
\* again for the header (lines 221-236)
SendOK ==
    /\ pc = "send"
    /\ ~ioTimedOut
    /\ wire' = wire \o requestWrites(u)
    /\ deadline' = IF phaseTimeout(client) THEN phaseDeadline(client, start)
                   ELSE deadline
    /\ pc' = "readHeader"
    /\ UNCHANGED <<client, now, start, inHost, inURL, inPEM, host, u, sock,
                   peer, stream, res, retRes, retErr>>
    /\ UNCHANGED verifyVars
    /\ UNCHANGED sent
    /\ UNCHANGED callVars

\* a status check that does not look at AllowInvalidStatuses
statusRejectedWhateverFlag(c, status) == ~IsStatusValid(status)

\* a status the client refuses (line 248)
statusRejected(c, status) == ~c.AllowInvalidStatuses /\ ~IsStatusValid(status)

\* a fetch that closes the connection on every path, the successful
\* return included
getResponseWithClosing(hd) ==
    IF hd.kind = "panic"
    THEN /\ pc' = "panic"
         /\ UNCHANGED <<sock, deadline, stream, res, retRes, retErr>>
    ELSE IF hd.kind = "error"
    THEN /\ sock' = closeConn(sock)
         /\ ReturnError("header")
         /\ UNCHANGED <<deadline, stream, res>>
    ELSE /\ res' = [res EXCEPT !.Status = hd.status, !.Meta = hd.meta,
                               !.Body = "conn"]
         /\ stream' = hd.rest
         /\ deadline' = IF phaseTimeout(client) THEN NoDeadline ELSE deadline
         /\ sock' = closeConn(sock)
         /\ IF statusRejected(client, hd.status)
            THEN ReturnError("status")
            ELSE /\ pc' = "done"
                 /\ retRes' = "res"
                 /\ retErr' = "none"

\* getResponse and the status check for the header outcome hd (lines 237-254)
getResponseWith(hd) ==
    IF hd.kind = "panic"
    THEN /\ pc' = "panic"
         /\ UNCHANGED <<sock, deadline, stream, res, retRes, retErr>>
    ELSE IF hd.kind = "error"
    THEN /\ sock' = closeConn(sock)
         /\ ReturnError("header")
         /\ UNCHANGED <<deadline, stream, res>>
    ELSE /\ res' = [res EXCEPT !.Status = hd.status, !.Meta = hd.meta,
                               !.Body = "conn"]
         /\ stream' = hd.rest
         /\ deadline' = IF phaseTimeout(client) THEN NoDeadline ELSE deadline
         /\ IF statusRejected(client, hd.status)
            THEN sock' = closeConn(sock) /\ ReturnError("status")
            ELSE /\ pc' = "done"
                 /\ retRes' = "res"
                 /\ retErr' = "none"
                 /\ UNCHANGED sock

\* getResponse and the status check: st is what the server sends, cut short
\* by a read error when the deadline has passed
getResponseFrom(streams) ==
    \E st \in (IF ioTimedOut THEN {<<"<err>">>} ELSE streams) :
        /\ sent' = st
        /\ getResponseWith(getHeader(st))

GetResponse ==
    /\ pc = "readHeader"
    /\ getResponseFrom(ServerStreams)
    /\ UNCHANGED <<client, now, start, inHost, inURL, inPEM, host, u, peer,
                   wire>>
    /\ UNCHANGED verifyVars
    /\ UNCHANGED callVars

\* time passes while the fetch is under way, and while the caller holds
\* the Response it got
Tick ==
    /\ \/ pc \notin {"idle", "done", "panic"}
       \/ (pc = "done" /\ retRes = "res")
    /\ now < MaxTime
    /\ now' = now + 1
    /\ UNCHANGED <<client, pc, start, inHost, inURL, inPEM, host, u, sock,
                   deadline, peer, wire, stream, res, retRes, retErr>>
    /\ UNCHANGED verifyVars
    /\ UNCHANGED sent
    /\ UNCHANGED callVars

\* the d a caller may hand to SetReadTimeout
SetDurations == {0 - 1, 0, SomeReadTimeout}

\* a SetReadTimeout that takes d = 0 for a timeout of no length
readDeadlineZeroArms(d, t) == IF d < 0 THEN NoDeadline ELSE t + d

\* the deadline SetReadTimeout(d) sets at time t (lines 127-130)
readDeadline(d, t) == IF d <= 0 THEN NoDeadline ELSE t + d

\* Response.SetReadTimeout(d) on the Response a fetch returned
\* (lines 126-131)
SetReadTimeout ==
    /\ pc = "done"
    /\ retRes = "res"
    /\ \E d \in SetDurations :
          /\ deadline' = readDeadline(d, now)
          /\ lastSet' = [called |-> TRUE, d |-> d, at |-> now]
    /\ UNCHANGED <<client, pc, now, start, inHost, inURL, inPEM, host, u,
                   sock, peer, wire, stream, res, retRes, retErr>>
    /\ UNCHANGED verifyVars
    /\ UNCHANGED sent
    /\ UNCHANGED <<served, helper, qcall, sched>>

Next ==
    \/ Begin
    \/ DialFail
    \/ DialOK
    \/ VerifyHost
    \/ CheckNotBefore
    \/ CheckNotAfter
    \/ ArmSend
    \/ SendFail
    \/ SendOK
    \/ GetResponse
    \/ SetReadTimeout
    \/ Tick

Spec == Init /\ [][Next]_vars


---------------------------------------------------------------------------
(* QueryEscape and QueryUnescape: gemini.go, over url.PathEscape and       *)
(* url.PathUnescape.  A query string is a sequence of bytes.               *)

\* the bytes that occur, each with the two hexadecimal digits of its value;
\* "<c3>", "<b2>" and "<bb>" are bytes above 0x7F
ByteTable ==
    {<<"t", 7, 4>>, <<"e", 6, 5>>, <<"s", 7, 3>>, <<"2", 3, 2>>,
     <<"B", 4, 2>>, <<"/", 2, 15>>, <<"&", 2, 6>>, <<"%", 2, 5>>,
     <<" ", 2, 0>>, <<"+", 2, 11>>, <<"^", 5, 14>>, <<"*", 2, 10>>,
     <<"\\", 5, 12>>, <<"\"", 2, 2>>, <<"<c3>", 12, 3>>, <<"<b2>", 11, 2>>,
     <<"<bb>", 11, 11>>}

upperhex == <<"0","1","2","3","4","5","6","7","8","9","A","B","C","D","E","F">>

byteEntry(c) == CHOOSE e \in ByteTable : e[1] = c
byteOfHex(hi, lo) ==
    (CHOOSE e \in ByteTable : e[2] = HexVal(hi) /\ e[3] = HexVal(lo))[1]

\* shouldEscape(c, encodePathSegment)
shouldEscapePathSegment(c) ==
    IF IsLetter(c) \/ IsDigit(c) THEN FALSE
    ELSE IF c \in {"-", "_", ".", "~"} THEN FALSE
    ELSE IF c \in {"$", "&", "+", ",", "/", ":", ";", "=", "?", "@"}
    THEN c \in {"/", ";", ",", "?"}
    ELSE TRUE

\* the image of one byte under escape: itself, or "%" and two upper-case
\* hexadecimal digits
escapedByte(c) ==
    IF shouldEscapePathSegment(c)
    THEN <<"%", upperhex[byteEntry(c)[2] + 1], upperhex[byteEntry(c)[3] + 1]>>
    ELSE <<c>>

\* url.PathEscape(s)
RECURSIVE PathEscape(_)
PathEscape(s) ==
    IF s = <<>> THEN <<>> ELSE escapedByte(Head(s)) \o PathEscape(Tail(s))

\* strings.ReplaceAll(s, "+", "%2B")
RECURSIVE ReplacePlus(_)
ReplacePlus(s) ==
    IF s = <<>> THEN <<>>
    ELSE (IF Head(s) = "+" THEN <<"%", "2", "B">> ELSE <<Head(s)>>)
            \o ReplacePlus(Tail(s))

\* a QueryEscape that is url.PathEscape alone
QueryEscapePlusKept(q) == PathEscape(q)

\* QueryEscape(query)
QueryEscape(q) == ReplacePlus(PathEscape(q))

\* the first pass of unescape: every "%" is followed by two hexadecimal
\* digits
RECURSIVE escapesValid(_)
escapesValid(s) ==
    IF s = <<>> THEN TRUE
    ELSE IF Head(s) # "%" THEN escapesValid(Tail(s))
    ELSE IF Len(s) < 3 \/ ~IsHex(s[2]) \/ ~IsHex(s[3]) THEN FALSE
    ELSE escapesValid(SubSeq(s, 4, Len(s)))

\* the second pass of unescape in the path-segment mode: "%XX" becomes the
\* byte, every other byte ("+" too) stays
RECURSIVE unescapeBytes(_)
unescapeBytes(s) ==
    IF s = <<>> THEN <<>>
    ELSE IF Head(s) = "%"
    THEN <<byteOfHex(s[2], s[3])>> \o unescapeBytes(SubSeq(s, 4, Len(s)))
    ELSE <<Head(s)>> \o unescapeBytes(Tail(s))

\* url.PathUnescape(s): the string and whether an error is returned
PathUnescape(s) ==
    IF escapesValid(s) THEN [s |-> unescapeBytes(s), err |-> FALSE]
    ELSE [s |-> <<>>, err |-> TRUE]

\* QueryUnescape(query)
QueryUnescape(q) == PathUnescape(q)

---------------------------------------------------------------------------
(* Specification SpecQuery: QueryEscape called on a query string, and      *)
(* QueryUnescape called on that string or on what QueryEscape returned.    *)

QueryAlphabet == {"t", "+", "%", "2", "B", "/", " ", "&", "<c3>"}

\* the query of TestQuery
TestQueryString ==
    <<"t", "/", "&", "^", "*", "%", " ", "e", "s", "\\", "+", "+", "\\", "t">>

Queries == StringsUpTo(QueryAlphabet, MaxQueryLen) \cup {TestQueryString}

InitQuery ==
    /\ \E q \in Queries : qcall = [NoQuery EXCEPT !.q = q]
    /\ sched = NoSched
    /\ helper = NoHelper
    /\ served = NoServed
    /\ FetchIdle
    /\ vcert = NoCert
    /\ vhost = <<>>
    /\ vres = "none"

QueryFrame ==
    /\ UNCHANGED verifyVars
    /\ UNCHANGED fetchVars
    /\ UNCHANGED <<lastSet, served, helper, sched>>

CallQueryEscape ==
    /\ "QueryEscape" \notin qcall.called
    /\ qcall' = [qcall EXCEPT
                    !.called = @ \cup {"QueryEscape"},
                    !.escaped = QueryEscape(qcall.q)]
    /\ QueryFrame

\* the strings QueryUnescape is called on
unescapeArgs ==
    IF "QueryEscape" \in qcall.called THEN {qcall.escaped, qcall.q}
    ELSE {qcall.q}

CallQueryUnescape ==
    /\ "QueryUnescape" \notin qcall.called
    /\ \E a \in unescapeArgs :
          qcall' = [qcall EXCEPT
                       !.called = @ \cup {"QueryUnescape"},
                       !.arg = a,
                       !.unescaped = QueryUnescape(a).s,
                       !.err = QueryUnescape(a).err]
    /\ QueryFrame

NextQuery ==
    \/ CallQueryEscape
    \/ CallQueryUnescape

SpecQuery == InitQuery /\ [][NextQuery]_vars

---------------------------------------------------------------------------
(* Specification SpecStatus: the status helpers SimplifyStatus,            *)
(* StatusInRange and CleanStatus, each called once on one status.          *)

HelperStatuses == (0 - MaxStatus)..MaxStatus

InitStatus ==
    /\ \E st \in HelperStatuses : helper = [NoHelper EXCEPT !.status = st]
    /\ qcall = NoQuery
    /\ sched = NoSched
    /\ served = NoServed
    /\ FetchIdle
    /\ vcert = NoCert
    /\ vhost = <<>>
    /\ vres = "none"

\* the variables the status helpers leave alone
HelperFrame ==
    /\ UNCHANGED verifyVars
    /\ UNCHANGED fetchVars
    /\ UNCHANGED <<lastSet, served, qcall, sched>>

CallSimplifyStatus ==
    /\ "SimplifyStatus" \notin helper.called
    /\ helper' = [helper EXCEPT
                     !.called = @ \cup {"SimplifyStatus"},
                     !.SimplifyStatus = SimplifyStatus(helper.status)]
    /\ HelperFrame

CallStatusInRange ==
    /\ "StatusInRange" \notin helper.called
    /\ helper' = [helper EXCEPT
                     !.called = @ \cup {"StatusInRange"},
                     !.StatusInRange = StatusInRange(helper.status)]
    /\ HelperFrame

CallCleanStatus ==
    /\ "CleanStatus" \notin helper.called
    /\ helper' = [helper EXCEPT
                     !.called = @ \cup {"CleanStatus"},
                     !.CleanStatus = CleanStatus(helper.status)]
    /\ HelperFrame

NextStatus ==
    \/ CallSimplifyStatus
    \/ CallStatusInRange
    \/ CallCleanStatus

SpecStatus == InitStatus /\ [][NextStatus]_vars

---------------------------------------------------------------------------
(* Specification SpecReply: one fetch of gemini://a.com/ from a.com, with  *)
(* the clock standing still inside the certificates' validity window,      *)
(* against a server that answers with any status.                          *)

\* "<status> a" CR LF for every status from -MaxStatus to MaxStatus, a meta
\* at the limit and one over it, a line with no space, and no answer at all
ReplyStreams ==
    {FormatInt(st) \o <<" ", "a">> \o CRLF : st \in (0 - MaxStatus)..MaxStatus}
        \cup {<<"2","0"," ">> \o Pad(MetaMaxLength) \o CRLF,
              <<"9","9"," ">> \o Pad(MetaMaxLength + 1) \o CRLF,
              <<"2","0">> \o CRLF,
              <<>>}

InitReply ==
    /\ client \in Clients
    /\ inHost = ACom
    /\ inURL = URLACom
    /\ inPEM = "empty"
    /\ now = PeerNotBefore
    /\ pc = "idle"
    /\ start = 0
    /\ host = <<>>
    /\ u = <<>>
    /\ sock = "none"
    /\ deadline = NoDeadline
    /\ peer = NoCert
    /\ wire = <<>>
    /\ sent = <<>>
    /\ stream = <<>>
    /\ res = EmptyResponse
    /\ retRes = "nil"
    /\ retErr = "none"
    /\ lastSet = NoCall
    /\ served = NoServed
    /\ helper = NoHelper
    /\ qcall = NoQuery
    /\ sched = NoSched
    /\ vcert = NoCert
    /\ vhost = <<>>
    /\ vres = "none"

\* getResponse and the status check, on what this server sends
GetReply ==
    /\ pc = "readHeader"
    /\ getResponseFrom(ReplyStreams)
    /\ UNCHANGED <<client, now, start, inHost, inURL, inPEM, host, u, peer,
                   wire>>
    /\ UNCHANGED verifyVars
    /\ UNCHANGED callVars

NextReply ==
    \/ Begin
    \/ DialFail
    \/ DialOK
    \/ VerifyHost
    \/ CheckNotBefore
    \/ CheckNotAfter
    \/ ArmSend
    \/ SendFail
    \/ SendOK
    \/ GetReply

SpecReply == InitReply /\ [][NextReply]_vars

---------------------------------------------------------------------------
(* Specification SpecBody: the fetch of SpecReply followed by the caller,  *)
(* who holds the Response and may close its Body.                          *)

\* the caller's res.Body.Close(): Body is the connection (line 369), so
\* this closes the connection
BodyClose ==
    /\ pc = "done"
    /\ retRes = "res"
    /\ res.Body = "conn"
    /\ sock = "open"
    /\ sock' = closeConn(sock)
    /\ UNCHANGED <<client, pc, now, start, inHost, inURL, inPEM, host, u,
                   deadline, peer, wire, stream, res, retRes, retErr>>
    /\ UNCHANGED verifyVars
    /\ UNCHANGED sent
    /\ UNCHANGED callVars

NextBody ==
    \/ NextReply
    \/ BodyClose

SpecBody == InitReply /\ [][NextBody]_vars

---------------------------------------------------------------------------
(* Specification SpecShare: two goroutines call FetchWithHostAndCert on    *)
(* the same *Client.  The fetch variables hold the locals of the fetch     *)
(* that is running; the locals of the other one are kept in sched.saved,   *)
(* and a switch between two steps swaps them.  The Client and the clock    *)
(* are shared.  What the network does for each fetch is fixed beforehand   *)
(* in sched.env, so that a fetch has one outcome when it runs alone.  The  *)
(* clock stands still.                                                     *)

Procs == {1, 2}

\* the locals of FetchWithHostAndCert and of the calls it makes: the
\* arguments, u, host, start, conn, res and what is returned
Locals(p, st, ih, iu, ip, h, pu, so, dl, pe, wi, se, sm, re, rr, er) ==
    [pc |-> p, start |-> st, inHost |-> ih, inURL |-> iu, inPEM |-> ip,
     host |-> h, u |-> pu, sock |-> so, deadline |-> dl, peer |-> pe,
     wire |-> wi, sent |-> se, stream |-> sm, res |-> re, retRes |-> rr,
     retErr |-> er]

\* the locals of a call that has not begun
FreshLocals(in) ==
    Locals("idle", 0, in.host, in.url, in.pem, <<>>, <<>>, "none",
           NoDeadline, NoCert, <<>>, <<>>, <<>>, EmptyResponse, "nil", "none")

\* the slot of the fetch that is running: its locals are the fetch variables
NoLocals == FreshLocals([host |-> <<>>, url |-> <<>>, pem |-> "empty"])

RunningLocals ==
    Locals(pc, start, inHost, inURL, inPEM, host, u, sock, deadline, peer,
           wire, sent, stream, res, retRes, retErr)

\* the clock stands still, so no timeout can pass: the Clients that set
\* none
ShareClients ==
    {c \in Clients : c.ConnectTimeout = 0 /\ c.ReadTimeout = 0}

CallACom       == [host |-> ACom, url |-> URLACom,       pem |-> "empty"]
CallUnparsable == [host |-> ACom, url |-> URLUnparsable, pem |-> "empty"]

Env(d, pe, so, st) == [dialOK |-> d, peer |-> pe, sendOK |-> so, stream |-> st]

CertFor(name) == Cert(<<name>>, <<>>, <<>>, TRUE, PeerNotBefore, PeerNotAfter)

Reply20 == <<"2","0"," ","a">> \o CRLF \o <<"b","o","d","y">>

\* what the network does for one fetch: whether the dial succeeds, the
\* certificate the server presents, whether the request can be written and
\* what the server sends
NoNetwork == Env(FALSE, NoCert, FALSE, <<>>)

ShareEnvs ==
    {NoNetwork,
     Env(TRUE, CertFor(ACom), FALSE, <<>>),
     Env(TRUE, CertFor(ACom), TRUE, Reply20),
     Env(TRUE, CertFor(ACom), TRUE, <<"2","1"," ","a">> \o CRLF),
     Env(TRUE, CertFor(ACom), TRUE, <<"2","<err>">>),
     Env(TRUE, CertFor(OtherOrg), TRUE, Reply20)}

\* the calls: the arguments and what the network does
ShareCalls ==
    {[in |-> CallACom, env |-> e] : e \in ShareEnvs}
        \cup {[in |-> CallUnparsable, env |-> NoNetwork]}

ShareTimes == {PeerNotBefore, PeerNotAfter + 1}

InitShare ==
    /\ client \in ShareClients
    /\ now \in ShareTimes
    /\ \E c1 \in ShareCalls, c2 \in ShareCalls :
          /\ sched = [running |-> 1,
                      saved |-> <<NoLocals, FreshLocals(c2.in)>>,
                      env |-> <<c1.env, c2.env>>]
          /\ inHost = c1.in.host
          /\ inURL = c1.in.url
          /\ inPEM = c1.in.pem
    /\ pc = "idle"
    /\ start = 0
    /\ host = <<>>
    /\ u = <<>>
    /\ sock = "none"
    /\ deadline = NoDeadline
    /\ peer = NoCert
    /\ wire = <<>>
    /\ sent = <<>>
    /\ stream = <<>>
    /\ res = EmptyResponse
    /\ retRes = "nil"
    /\ retErr = "none"
    /\ lastSet = NoCall
    /\ served = NoServed
    /\ helper = NoHelper
    /\ qcall = NoQuery
    /\ vcert = NoCert
    /\ vhost = <<>>
    /\ vres = "none"

\* what the network does for the fetch that is running
RunningEnv == sched.env[sched.running]

\* a fetch that finds the connection wherever the last fetch left it, as if
\* conn were kept in a place the fetches share
connOfShared(p) == sock

\* conn, a local of the fetch p (line 210)
connOf(p) == sched.saved[p].sock

\* the scheduler lets the fetch p run: the locals of the running fetch are
\* put aside and those of p are taken up; the Client is not touched
Switch ==
    /\ \E p \in Procs \ {sched.running} :
          /\ sched.saved[p].pc # "done"
          /\ sched' = [sched EXCEPT
                          !.running = p,
                          !.saved[sched.running] = RunningLocals,
                          !.saved[p] = NoLocals]
          /\ pc' = sched.saved[p].pc
          /\ start' = sched.saved[p].start
          /\ inHost' = sched.saved[p].inHost
          /\ inURL' = sched.saved[p].inURL
          /\ inPEM' = sched.saved[p].inPEM
          /\ host' = sched.saved[p].host
          /\ u' = sched.saved[p].u
          /\ sock' = connOf(p)
          /\ deadline' = sched.saved[p].deadline
          /\ peer' = sched.saved[p].peer
          /\ wire' = sched.saved[p].wire
          /\ sent' = sched.saved[p].sent
          /\ stream' = sched.saved[p].stream
          /\ res' = sched.saved[p].res
          /\ retRes' = sched.saved[p].retRes
          /\ retErr' = sched.saved[p].retErr
    /\ UNCHANGED <<client, now>>
    /\ UNCHANGED verifyVars
    /\ UNCHANGED <<lastSet, served, helper, qcall>>

\* the steps of the running fetch, on what the network does for it
ShareDialFail == DialFail /\ ~RunningEnv.dialOK
ShareDialOK   == DialOK /\ RunningEnv.dialOK /\ peer' = RunningEnv.peer
ShareSendFail == SendFail /\ ~RunningEnv.sendOK
ShareSendOK   == SendOK /\ RunningEnv.sendOK
ShareGetResponse == GetResponse /\ sent' = RunningEnv.stream

NextShare ==
    \/ Begin
    \/ ShareDialFail
    \/ ShareDialOK
    \/ VerifyHost
    \/ CheckNotBefore
    \/ CheckNotAfter
    \/ ArmSend
    \/ ShareSendFail
    \/ ShareSendOK
    \/ ShareGetResponse
    \/ Switch

SpecShare == InitShare /\ [][NextShare]_vars

---------------------------------------------------------------------------
(* Specification SpecProxy: one FetchWithHostAndCert where the host        *)
(* argument and the host of the URL are chosen apart, the clock standing   *)
(* still before, inside or after the certificates' validity window.        *)

URLOther == GeminiSlashes \o OtherOrg \o <<"/">>

ProxyHosts == {ACom, ACom \o <<":">> \o DefaultPort, OtherOrg, IdnCom}
ProxyURLs  == {URLACom, URLOther, URLIdn, URLUnparsable}
ProxyTimes == {0, PeerNotBefore, PeerNotAfter + 1}

InitProxy ==
    /\ client \in Clients
    /\ inHost \in ProxyHosts
    /\ inURL \in ProxyURLs
    /\ inPEM = "empty"
    /\ now \in ProxyTimes
    /\ pc = "idle"
    /\ start = 0
    /\ host = <<>>
    /\ u = <<>>
    /\ sock = "none"
    /\ deadline = NoDeadline
    /\ peer = NoCert
    /\ wire = <<>>
    /\ sent = <<>>
    /\ stream = <<>>
    /\ res = EmptyResponse
    /\ retRes = "nil"
    /\ retErr = "none"
    /\ lastSet = NoCall
    /\ served = NoServed
    /\ helper = NoHelper
    /\ qcall = NoQuery
    /\ sched = NoSched
    /\ vcert = NoCert
    /\ vhost = <<>>
    /\ vres = "none"

NextProxy ==
    \/ Begin
    \/ DialFail
    \/ DialOK
    \/ VerifyHost
    \/ CheckNotBefore
    \/ CheckNotAfter
    \/ ArmSend
    \/ SendFail
    \/ SendOK
    \/ GetResponse

SpecProxy == InitProxy /\ [][NextProxy]_vars

---------------------------------------------------------------------------
(* Specification SpecHeader: one call of getResponse(&res, conn) on a      *)
(* connection that gives a stream drawn from a bounded set.                *)

HeaderAlphabet == {"2", " ", "a", "\t", "\r", "\n"}

\* streams with a second digit, a sign, failing and empty Reads, and longer
\* lines
ScenarioStreams ==
    {<<"2","0"," ","a","\r","\n","b">>,
     <<"2","0","\t","a","\r","\n">>,
     <<"2","0"," ","a","\n","b","\r","\n">>,
     <<"2","0"," ","a","\n">>,
     <<"2","0"," ","a"," ","b","\r","\n">>,
     <<"+","2"," ","a","\r","\n">>,
     <<"2","0"," ","a","<err>","\r","\n">>,
     <<"2","0"," ","<err>">>,
     <<"<err>">>,
     <<"2","0"," ","a","\r","<err>","\n">>,
     <<"2","0"," ","a","\r">>,
     <<"2","0"," ","<zero>","\r","\n">>,
     <<"2","0"," ","a","\r","<zero>","\n">>,
     <<"<zero>","\r","\n">>}

\* header lines with a meta at the limit, and one byte over it
LimitStreams ==
    {<<"2","0"," ">> \o Pad(MetaMaxLength) \o CRLF,
     <<"2","0"," ">> \o Pad(MetaMaxLength - 1) \o <<" ">> \o CRLF \o <<"b">>,
     <<"2","0"," ">> \o Pad(MetaMaxLength + 1) \o CRLF}

HeaderStreams ==
    StringsUpTo(HeaderAlphabet, MaxStreamLen) \cup ScenarioStreams
        \cup LimitStreams

InitHeader ==
    /\ sent \in HeaderStreams
    /\ stream = sent
    /\ pc = "getResponse"
    /\ sock = "open"
    /\ client = ZeroClient
    /\ now = 0
    /\ start = 0
    /\ inHost = <<>>
    /\ inURL = <<>>
    /\ inPEM = "empty"
    /\ host = <<>>
    /\ u = <<>>
    /\ deadline = NoDeadline
    /\ peer = NoCert
    /\ wire = <<>>
    /\ res = EmptyResponse
    /\ retRes = "nil"
    /\ retErr = "none"
    /\ lastSet = NoCall
    /\ served = NoServed
    /\ helper = NoHelper
    /\ qcall = NoQuery
    /\ sched = NoSched
    /\ vcert = NoCert
    /\ vhost = <<>>
    /\ vres = "none"

\* a getResponse that returns the error and leaves the connection open
getResponseOfNoClose(hd) ==
    IF hd.kind = "panic"
    THEN /\ pc' = "panic"
         /\ UNCHANGED <<sock, stream, res, retErr>>
    ELSE IF hd.kind = "error"
    THEN /\ retErr' = "header"
         /\ pc' = "done"
         /\ UNCHANGED <<sock, stream, res>>
    ELSE /\ res' = [res EXCEPT !.Status = hd.status, !.Meta = hd.meta,
                               !.Body = "conn"]
         /\ stream' = hd.rest
         /\ pc' = "done"
         /\ UNCHANGED <<sock, retErr>>

\* getResponse for the outcome hd of getHeader (lines 361-370)
getResponseOf(hd) ==
    IF hd.kind = "panic"
    THEN /\ pc' = "panic"
         /\ UNCHANGED <<sock, stream, res, retErr>>
    ELSE IF hd.kind = "error"
    THEN /\ sock' = closeConn(sock)
         /\ retErr' = "header"
         /\ pc' = "done"
         /\ UNCHANGED <<stream, res>>
    ELSE /\ res' = [res EXCEPT !.Status = hd.status, !.Meta = hd.meta,
                               !.Body = "conn"]
         /\ stream' = hd.rest
         /\ pc' = "done"
         /\ UNCHANGED <<sock, retErr>>

\* getResponse(&res, conn) (lines 360-371)
CallGetResponse ==
    /\ pc = "getResponse"
    /\ getResponseOf(getHeader(stream))
    /\ UNCHANGED <<client, now, start, inHost, inURL, inPEM, host, u,
                   deadline, peer, wire, retRes>>
    /\ UNCHANGED verifyVars
    /\ UNCHANGED callVars
    /\ UNCHANGED sent

NextHeader == CallGetResponse

SpecHeader == InitHeader /\ [][NextHeader]_vars

---------------------------------------------------------------------------
(* Specification SpecRoundTrip: a server's writeResponse writes the header *)
(* line of a Response, and getResponse reads it back.                      *)

MetaAlphabet == {"a", " ", "\t", "\r", "\n"}

HoldsCRLF(m) == \E i \in 1..(Len(m) - 1) : m[i] = "\r" /\ m[i+1] = "\n"

\* the metas a server may hand over: every short one with no CR LF in it,
\* and one of MetaMaxLength bytes
ServedMetas ==
    {m \in StringsUpTo(MetaAlphabet, MaxMetaLen) : ~HoldsCRLF(m)}
        \cup {Pad(MetaMaxLength)}

ServedStatuses == 10..69

InitRoundTrip ==
    /\ served \in [given : {TRUE}, Status : ServedStatuses, Meta : ServedMetas]
    /\ pc = "writeResponse"
    /\ sock = "open"
    /\ sent = <<>>
    /\ stream = <<>>
    /\ client = ZeroClient
    /\ now = 0
    /\ start = 0
    /\ inHost = <<>>
    /\ inURL = <<>>
    /\ inPEM = "empty"
    /\ host = <<>>
    /\ u = <<>>
    /\ deadline = NoDeadline
    /\ peer = NoCert
    /\ wire = <<>>
    /\ res = EmptyResponse
    /\ retRes = "nil"
    /\ retErr = "none"
    /\ lastSet = NoCall
    /\ helper = NoHelper
    /\ qcall = NoQuery
    /\ sched = NoSched
    /\ vcert = NoCert
    /\ vhost = <<>>
    /\ vres = "none"

\* the server's writeResponse(conn, response): the client's connection will
\* deliver what it wrote
WriteResponse ==
    /\ pc = "writeResponse"
    /\ sent' = headerLineOf(served.Status, served.Meta)
    /\ stream' = sent'
    /\ pc' = "getResponse"
    /\ UNCHANGED <<client, now, start, inHost, inURL, inPEM, host, u, sock,
                   deadline, peer, wire, res, retRes, retErr>>
    /\ UNCHANGED verifyVars
    /\ UNCHANGED callVars

NextRoundTrip ==
    \/ WriteResponse
    \/ CallGetResponse

SpecRoundTrip == InitRoundTrip /\ [][NextRoundTrip]_vars

---------------------------------------------------------------------------
(* Properties of Spec.                                                     *)

\* the errors connect returns after the handshake is done
HostnameErrors == {"hostname", "hostname-no-unicode", "hostname-unicode"}
ExpiryErrors   == {"cert-future", "cert-expired"}
RejectErrors   == HostnameErrors \cup ExpiryErrors

\* the errors FetchWithHostAndCert returns after connect has returned
LateErrors == {"send", "header", "status"}

Returned == pc = "done"

\* C1: when connect has completed the dial and then rejects the peer
\* (hostname mismatch, certificate for the future, certificate expired), the
\* connection is closed by the time FetchWithHostAndCert returns the error.
C1_RejectedPeerClosed ==
    (Returned /\ retErr \in RejectErrors) => sock = "closed"

\* the Unicode form of the connection hostname verifies against the peer
UnicodeFormVerifies ==
    /\ ToUnicode(connHostname).ok
    /\ verifyHostname(peer, ToUnicode(connHostname).s)

\* C2: with the hostname check enabled, a peer whose certificate fails for
\* the ASCII hostname but verifies for its idna.ToUnicode form is accepted:
\* connect returns no hostname error for it.
C2_UnicodeFormAccepted ==
    (Returned /\ peer # NoCert /\ UnicodeFormVerifies)
        => retErr \notin HostnameErrors

\* C3: a fetch that fails after connect returned (request line not written,
\* header not read or not parsed, status refused) has closed the connection
\* when it returns, and no error return carries a Response.
C3_LateFailureCloses ==
    /\ (Returned /\ retErr \in LateErrors) => sock = "closed"
    /\ (Returned /\ retErr # "none") => retRes = "nil"

\* a parsed header with a status outside the table is refused, and the
\* connection is closed
C3_Witness ==
    /\ Returned
    /\ retErr = "status"
    /\ res.Status = 21
    /\ sock = "closed"
    /\ retRes = "nil"

\* a step that leaves the first or the second expiry test
LeavesNotBefore == pc = "notBefore" /\ pc' # "notBefore"
LeavesNotAfter  == pc = "notAfter" /\ pc' # "notAfter"

\* C8: with Insecure and NoTimeCheck false, connect fails when the time it
\* reads is before NotBefore or after NotAfter and passes for every time from
\* NotBefore to NotAfter, both included; with NoTimeCheck the window is never
\* consulted; with only NoHostnameCheck set the window is still consulted.
C8_ValidityWindow ==
    /\ [][/\ LeavesNotBefore =>
                IF now < peer.NotBefore
                THEN pc' = "done" /\ retErr' = "cert-future"
                ELSE pc' = "notAfter" /\ retErr' = "none"
          /\ LeavesNotAfter =>
                IF now > peer.NotAfter
                THEN pc' = "done" /\ retErr' = "cert-expired"
                ELSE pc' = "armSend" /\ retErr' = "none"
          /\ (pc = "dial" /\ sock' = "open" /\ ~client.Insecure
                /\ ~client.NoTimeCheck /\ client.NoHostnameCheck)
                => pc' = "notBefore"
          /\ (pc = "verifyHost" /\ pc' \notin {"verifyHost", "done"}
                /\ ~client.NoTimeCheck)
                => pc' = "notBefore"]_vars
    /\ [](client.NoTimeCheck =>
            /\ pc \notin {"notBefore", "notAfter"}
            /\ retErr \notin ExpiryErrors)

\* with only the hostname check disabled, a certificate read at the very
\* instant NotAfter has passed the window
C8_Witness ==
    /\ ~client.Insecure
    /\ ~client.NoTimeCheck
    /\ client.NoHostnameCheck
    /\ pc = "armSend"
    /\ now = peer.NotAfter

\* C9: with Insecure, connect runs neither the hostname check nor the
\* expiry check and returns the connection for any peer certificate,
\* whatever NoHostnameCheck and NoTimeCheck are.
C9_InsecureSkipsChecks ==
    (client.Insecure /\ peer # NoCert) =>
        /\ pc \in {"armSend", "send", "readHeader", "done", "panic"}
        /\ retErr \notin RejectErrors

\* connect has returned the connection although both checks are enabled,
\* the certificate is for another name and its window has not begun
C9_Witness ==
    /\ client.Insecure
    /\ ~client.NoHostnameCheck
    /\ ~client.NoTimeCheck
    /\ pc = "armSend"
    /\ sock = "open"
    /\ ~verifyHostname(peer, connHostname)
    /\ now < peer.NotBefore

\* C10: with ReadTimeout = 0 and ConnectTimeout # 0 the deadline in force
\* while the request line is written and while the header is read is
\* start + ConnectTimeout, and when a Response is returned the connection
\* has no deadline.
C10_PhaseDeadline ==
    phaseTimeout(client) =>
        /\ pc \in {"send", "readHeader"}
              => deadline = start + client.ConnectTimeout
        /\ (retRes = "res" /\ ~lastSet.called) => deadline = NoDeadline

\* the header is awaited some time after the dial began, under the deadline
\* counted from start
C10_Witness ==
    /\ phaseTimeout(client)
    /\ pc = "readHeader"
    /\ now > start
    /\ deadline = start + client.ConnectTimeout


\* C11: with ReadTimeout # 0 the deadline is set once, when the handshake
\* is done, to that instant + ReadTimeout; no later step of the fetch changes
\* or clears it, so it is in force when the Response is returned, whatever
\* ConnectTimeout is.
C11_ReadDeadlineKept ==
    /\ [][client.ReadTimeout # 0 =>
            /\ (pc = "dial" /\ sock' = "open")
                  => deadline' = now + client.ReadTimeout
            /\ (pc = "dial" /\ sock' # "open") => deadline' = deadline
            /\ (pc \notin {"dial", "done"}) => deadline' = deadline]_vars
    /\ [](client.ReadTimeout # 0 /\ retRes = "res" /\ ~lastSet.called
            => deadline # NoDeadline)

\* a Response is returned, both timeouts set, some time after the dial: the
\* read deadline still stands and is not the one counted from start
C11_Witness ==
    /\ ~lastSet.called
    /\ client.ReadTimeout # 0
    /\ client.ConnectTimeout # 0
    /\ retRes = "res"
    /\ now > start
    /\ deadline # NoDeadline
    /\ deadline # start + client.ConnectTimeout


\* C12: SetReadTimeout(d) removes the deadline when d <= 0 and sets it to
\* the time of the call + d when d > 0, whatever deadline stood before: after
\* any sequence of calls the deadline is the one the last call alone gives.
C12_LastCallDecides ==
    lastSet.called =>
        deadline = (IF lastSet.d <= 0 THEN NoDeadline
                    ELSE lastSet.at + lastSet.d)

\* a call with d = 0, made some time after the fetch returned a Response
\* that carried a read deadline, has removed that deadline
C12_Witness ==
    /\ lastSet.called
    /\ lastSet.d = 0
    /\ lastSet.at > start
    /\ client.ReadTimeout # 0
    /\ deadline = NoDeadline


\* C13: a fetch whose request URL is longer than 1024 bytes returns an error
\* before any dial or write; a URL of exactly 1024 bytes is not refused for
\* its length; every request line written carries at most 1024 bytes of URL.
C13_URLLengthLimit ==
    /\ (pc # "idle" /\ Len(u) > URLMaxLength)
          => /\ pc = "done"
             /\ retErr = "url-too-long"
             /\ sock = "none"
             /\ wire = <<>>
    /\ retErr = "url-too-long" => Len(u) > URLMaxLength
    /\ \A i \in 1..Len(wire) : Len(wire[i]) <= URLMaxLength + Len(CRLF)

\* a URL of exactly 1024 bytes was sent and answered
C13_Witness ==
    /\ Len(inURL) = URLMaxLength
    /\ retRes = "res"
    /\ wire = <<inURL \o CRLF>>


\* C14: a raw URL that cannot be parsed makes the fetch return an error
\* without dialing and without writing a request line.
C14_UnparsableURLRefused ==
    ~urlParse(inURL).ok =>
        /\ sock = "none"
        /\ wire = <<>>
        /\ pc = "done" => retErr # "none"


\* C15: for a raw URL without a scheme the request line sent carries the
\* gemini scheme.
C15_DefaultSchemeSent ==
    (wire # <<>> /\ urlParse(inURL).ok /\ urlParse(inURL).Scheme = <<>>) =>
        \A i \in 1..Len(wire) : StartsWith(wire[i], GeminiSlashes)


---------------------------------------------------------------------------
(* Properties of getResponse and getHeader (specification SpecHeader).     *)

\* getResponse was called and is over
HeaderCalled == pc # "getResponse"

\* getResponse was called and has returned
HeaderReturned == pc = "done"

\* every Read gave one byte
PlainStream == \A i \in 1..Len(sent) : sent[i] \notin {"<err>", "<zero>"}

\* the bytes the connection delivers before it ends or a Read fails
BeforeFailure(st) ==
    IF Contains(st, "<err>") THEN SubSeq(st, 1, FirstIndex(st, "<err>") - 1)
    ELSE st

IsByte(c) == c # "<zero>"

Delivered == SelectSeq(BeforeFailure(sent), IsByte)

\* where the first CR LF of the delivered bytes stands, 0 when there is none
CRLFIndexOf(b) ==
    IF \E i \in 1..(Len(b) - 1) : b[i] = "\r" /\ b[i+1] = "\n"
    THEN CHOOSE i \in 1..(Len(b) - 1) :
            /\ b[i] = "\r" /\ b[i+1] = "\n"
            /\ \A j \in 1..(i-1) : ~(b[j] = "\r" /\ b[j+1] = "\n")
    ELSE 0

HasCRLF == CRLFIndexOf(Delivered) # 0

\* the header line: what stands before the first CR LF
HeaderLine == SubSeq(Delivered, 1, CRLFIndexOf(Delivered) - 1)

AllDigits(x) == x # <<>> /\ \A i \in 1..Len(x) : IsDigit(x[i])

\* the part of the header line before its first space, and after it
BeforeSpace ==
    IF Contains(HeaderLine, " ")
    THEN SubSeq(HeaderLine, 1, FirstIndex(HeaderLine, " ") - 1)
    ELSE HeaderLine
AfterSpace ==
    SubSeq(HeaderLine, FirstIndex(HeaderLine, " ") + 1, Len(HeaderLine))

HeaderError == pc = "done" /\ retErr = "header"
HeaderGiven(status, meta) ==
    /\ pc = "done"
    /\ retErr = "none"
    /\ res.Status = status
    /\ res.Meta = meta

\* C17: getHeader splits the line at its first space: the status is the
\* integer before it, meta everything after it; a line whose part before the
\* first space is no integer (letters, a tab for the space) is an error.
C17_SplitAtFirstSpace ==
    (HeaderReturned /\ PlainStream /\ HasCRLF) =>
        /\ (Contains(HeaderLine, " ") /\ Atoi(BeforeSpace).ok)
              => HeaderGiven(Atoi(BeforeSpace).val, AfterSpace)
        /\ ~Atoi(BeforeSpace).ok => HeaderError

\* C18: a line that is the status alone, with no space after it, is an
\* error; a status followed by one space and nothing else is accepted with
\* an empty meta.
C18_StatusAloneRejected ==
    (HeaderCalled /\ PlainStream /\ HasCRLF) =>
        /\ AllDigits(HeaderLine) => HeaderError
        /\ (AllDigits(BeforeSpace) /\ HeaderLine = BeforeSpace \o <<" ">>)
              => HeaderGiven(NumVal(BeforeSpace, 10), <<>>)

\* "22 " then CR LF is taken, with status 22 and no meta
C18_Witness ==
    /\ sent = <<"2", "2", " ", "\r", "\n">>
    /\ HeaderGiven(22, <<>>)
    /\ sock = "open"

\* the first line terminator of the stream is an LF with no CR before it
FirstTerminatorBareLF ==
    \E i \in 1..Len(Delivered) :
        /\ Delivered[i] = "\n"
        /\ i = 1 \/ Delivered[i-1] # "\r"
        /\ \A j \in 1..(i-1) : Delivered[j] # "\n"

\* C19: getHeader returns no header for input whose first line terminator
\* is a bare LF, whether the stream ends after it or goes on to a later
\* CR LF: it is an error.
C19_BareLFRejected ==
    (HeaderReturned /\ PlainStream /\ FirstTerminatorBareLF) => HeaderError

\* C20: when the stream ends or a Read fails before CR LF was read (an empty
\* stream included), getResponse returns an error, sets no status and no
\* meta, and closes the stream.
C20_EndBeforeCRLF ==
    (HeaderCalled /\ ~HasCRLF) =>
        /\ HeaderError
        /\ res = EmptyResponse
        /\ sock = "closed"

\* a Read fails between the CR and the LF
C20_Witness ==
    /\ sent = <<"2", "0", " ", "a", "\r", "<err>", "\n">>
    /\ HeaderError
    /\ res = EmptyResponse
    /\ sock = "closed"

\* the line is digits, a space, and a meta that is not white space alone
StatusSpaceMeta ==
    /\ Contains(HeaderLine, " ")
    /\ AllDigits(BeforeSpace)
    /\ \E i \in 1..Len(AfterSpace) : ~IsSpace(AfterSpace[i])

\* C21: a header whose meta is exactly MetaMaxLength (1024) bytes long is
\* accepted, one whose meta is longer is an error, and so no accepted header
\* has a meta longer than MetaMaxLength.
C21_MetaLengthLimit ==
    /\ (HeaderReturned /\ retErr = "none") => Len(res.Meta) <= MetaMaxLength
    /\ (HeaderCalled /\ PlainStream /\ HasCRLF /\ StatusSpaceMeta) =>
          /\ Len(AfterSpace) = MetaMaxLength
                => HeaderGiven(NumVal(BeforeSpace, 10), AfterSpace)
          /\ Len(AfterSpace) > MetaMaxLength => HeaderError

\* a meta of exactly MetaMaxLength bytes was taken
C21_Witness ==
    /\ sent = <<"2","0"," ">> \o Pad(MetaMaxLength) \o CRLF
    /\ HeaderGiven(20, Pad(MetaMaxLength))
    /\ Len(res.Meta) = MetaMaxLength

\* what the connection delivers after its first CR LF
AfterCRLF(b) == SubSeq(b, CRLFIndexOf(b) + 2, Len(b))

\* C23: readHeader takes from the stream the header line and its CR LF and
\* not one byte more: after getResponse succeeds, Response.Body is the
\* connection and reading it yields exactly the bytes that followed the
\* first CR LF, in order, and then the end of the stream.
C23_BodyIsTheRest ==
    (HeaderReturned /\ retErr = "none") =>
        /\ res.Body = "conn"
        /\ SelectSeq(BeforeFailure(stream), IsByte) = AfterCRLF(Delivered)
        /\ PlainStream => stream = AfterCRLF(sent)

\* the header is read and one byte of body is left to read
C23_Witness ==
    /\ sent = <<"2","0"," ","a","\r","\n","b">>
    /\ HeaderGiven(20, <<"a">>)
    /\ res.Body = "conn"
    /\ stream = <<"b">>

\* C22: for every status in 10..69 and every meta of 0 to 1024 bytes with no
\* CR LF in it, metas made of or ending in white space included, getHeader on
\* the line "<status> <meta>" CR LF returns exactly (status, meta).
C22_HeaderRoundTrip ==
    (served.given /\ pc \notin {"writeResponse", "getResponse"}) =>
        HeaderGiven(served.Status, served.Meta)

---------------------------------------------------------------------------
(* Properties of the status check (specification SpecReply).               *)

\* what getHeader made of the server's answer
ParsedReply == getHeader(sent)

\* C24: with AllowInvalidStatuses false a fetch returns a Response only if
\* its status is in the status table, and returns an error otherwise; with
\* AllowInvalidStatuses true a parsed status that is not in the table is
\* returned unchanged in Response.Status, with no error.
C24_StatusCheck ==
    /\ (retRes = "res" /\ ~client.AllowInvalidStatuses)
          => IsStatusValid(res.Status)
    /\ (Returned /\ ParsedReply.kind = "header") =>
          IF ~client.AllowInvalidStatuses /\ ~IsStatusValid(ParsedReply.status)
          THEN retRes = "nil" /\ retErr = "status"
          ELSE /\ retRes = "res"
               /\ retErr = "none"
               /\ res.Status = ParsedReply.status

\* status 99 is not in the table and is handed to a caller who allows it
C24_Witness ==
    /\ client.AllowInvalidStatuses
    /\ retRes = "res"
    /\ retErr = "none"
    /\ sent = <<"9","9"," ","a">> \o CRLF
    /\ res.Status = 99

\* C25: every Response a fetch returns, under every combination of the
\* client's flags (AllowInvalidStatuses true included), has a Status that
\* is a two-digit integer and a Meta of at most 1024 bytes.
C25_ResponseWellFormed ==
    retRes = "res" =>
        /\ res.Status \in 10..99
        /\ Len(res.Meta) <= MetaMaxLength

---------------------------------------------------------------------------
(* Properties of the status helpers (specification SpecStatus).            *)

\* C26: for every non-negative status c, every defined code among them,
\* SimplifyStatus(c) is c - (c mod 10), the multiple of ten of its decade.
C26_SimplifyStatus ==
    ("SimplifyStatus" \in helper.called /\ helper.status >= 0) =>
        helper.SimplifyStatus = helper.status - (helper.status % 10)

\* SimplifyStatus(59) gave 50
C26_Witness ==
    /\ "SimplifyStatus" \in helper.called
    /\ helper.status = 59
    /\ helper.SimplifyStatus = 50

\* C27: CleanStatus(s) is s for every s that is a defined status or lies
\* outside 10..69, where StatusInRange(s) is false, and is s with its second
\* digit zeroed only for an undefined s inside 10..69.
C27_CleanStatus ==
    /\ "StatusInRange" \in helper.called
          => (helper.StatusInRange <=> helper.status \in 10..69)
    /\ "CleanStatus" \in helper.called =>
          helper.CleanStatus =
              (IF IsStatusValid(helper.status) \/ helper.status \notin 10..69
               THEN helper.status
               ELSE helper.status - (helper.status % 10))

---------------------------------------------------------------------------
(* Properties of the fetch with a host of its own (specification           *)
(* SpecProxy).                                                             *)

\* the host argument with port 1965 added when it has none, punycoded
ArgAddress  == punycodeHost(withPort(inHost)).s
ArgHostname == SplitHostPort(ArgAddress).host

\* connect is past its hostname check, on a client that makes it
HostnameChecked ==
    /\ ~client.Insecure
    /\ ~client.NoHostnameCheck
    /\ peer # NoCert
    /\ pc # "verifyHost"
    /\ retErr \notin HostnameErrors

\* C28: in FetchWithHost and FetchWithHostAndCert the address dialed and the
\* hostname the peer certificate is verified against both come from the host
\* argument, with port 1965 added when it has none, and never from the host
\* of the URL; the URL only decides the request line that is sent.
C28_HostArgumentDecides ==
    /\ pc \in {"dial", "verifyHost"} => host = ArgAddress
    /\ sock # "none" => host = ArgAddress
    /\ HostnameChecked => verifyHostname(peer, ArgHostname)
    /\ (Returned /\ retErr \in HostnameErrors)
          => ~verifyHostname(peer, ArgHostname)
    /\ wire # <<>> => wire = <<GetPunycodeURL(inURL).s \o CRLF>>

\* the URL names other.org, the host argument a.com: the connection goes to
\* a.com:1965 and a certificate for other.org is refused
C28_Witness ==
    /\ inHost = ACom
    /\ inURL = URLOther
    /\ host = ACom \o <<":">> \o DefaultPort
    /\ peer = Cert(<<OtherOrg>>, <<>>, <<>>, TRUE, PeerNotBefore, PeerNotAfter)
    /\ Returned
    /\ retErr \in HostnameErrors

\* the positions of a fetch before sendRequest has written
BeforeSend ==
    {"idle", "dial", "verifyHost", "notBefore", "notAfter", "armSend", "send"}

\* sendRequest has returned without an error
RequestSent ==
    pc = "readHeader" \/ retErr \in {"header", "status"} \/ retRes = "res"

\* the URL out is the URL in with its host in ASCII-compatible form
PunycodedFrom(out, in) ==
    /\ out.ok /\ in.ok
    /\ out.Host = punycodeHost(in.Host).s
    /\ \A i \in 1..Len(out.Host) : IsASCII(out.Host[i])
    /\ [out EXCEPT !.Host = <<>>] = [in EXCEPT !.Host = <<>>]

C30_NoRetry ==
    [][/\ pc' = "dial" => pc \in {"idle", "dial"}
       /\ pc' = "send" => pc \in {"armSend", "send"}
       /\ pc' = "readHeader" => pc \in {"send", "readHeader"}
       /\ sock # "none" => sock' # "none"
       /\ sock = "closed" => sock' = "closed"
       /\ Len(wire') <= 1
       /\ retErr # "none" =>
             /\ pc = "done" /\ pc' = "done"
             /\ retErr' = retErr /\ retRes' = "nil"
             /\ sock' = sock /\ wire' = wire /\ sent' = sent]_vars

\* the header could not be read: the request went out once, the connection
\* is closed and the error is returned
C30_Witness ==
    /\ Returned
    /\ retErr = "header"
    /\ retRes = "nil"
    /\ Len(wire) = 1
    /\ sock = "closed"

---------------------------------------------------------------------------
(* Further properties of verifyHostname (specification SpecVerify).        *)

\* the characters a label may hold, by position
LabelChar(c, j) ==
    \/ IsLower(c) \/ IsUpper(c) \/ IsDigit(c) \/ c = "_"
    \/ (c = "-" /\ j # 1)

\* the hostname grammar in words: non-empty, every dot-separated label
\* non-empty and made of letters, digits, underscore and hyphen (no leading
\* hyphen); the label * only first and only where star is allowed
Grammar(name, star) ==
    /\ name # <<>>
    /\ \A i \in 1..Len(Split(name, ".")) :
        LET label == Split(name, ".")[i]
        IN  /\ label # <<>>
            /\ \/ (star /\ i = 1 /\ label = <<"*">>)
               \/ \A j \in 1..Len(label) : LabelChar(label[j], j)

\* the names verifyHostname passes to validHostname, and the common name
NamesOfCall ==
    {vhost, toLowerCaseASCII(vhost), vcert.CommonName}
        \cup {vcert.DNSNames[i] : i \in 1..Len(vcert.DNSNames)}

\* C34 as stated: validHostname accepts a name iff the name as given
\* passes the grammar, on either side.  Fails for a host that ends in one
\* dot, whose last label is empty and which is accepted.
C34_Grammar_AsStated ==
    Verified =>
        \A n \in NamesOfCall :
            /\ validHostnamePattern(n) <=> Grammar(n, TRUE)
            /\ validHostnameInput(n) <=> Grammar(n, FALSE)

\* C34 (amended): validHostname accepts a pattern iff it passes the grammar
\* (non-empty, every label non-empty, of ASCII letters, digits, underscore
\* and hyphen, no hyphen first, the label * allowed as the first label),
\* and accepts a host iff the host with one trailing dot stripped passes
\* the grammar with no * label allowed.
C34_Grammar ==
    Verified =>
        \A n \in NamesOfCall :
            /\ validHostnamePattern(n) <=> Grammar(n, TRUE)
            /\ validHostnameInput(n) <=> Grammar(TrimSuffixDot(n), FALSE)

\* a host with a trailing dot passes the grammar and so is matched label
\* by label
C34_Witness ==
    /\ vres = "ok"
    /\ vhost = <<"a", ".">>
    /\ vcert.DNSNames = <<<<"a">>>>
    /\ vcert.HasSAN

\* C35: matching folds ASCII letters only and strips exactly one trailing
\* dot from the host, never from the pattern: host Example.COM. verifies
\* against example.com, host example.com.. does not, candidate example.com.
\* does not verify host example.com; a non-ASCII capital is not folded.
C35_FoldAndDot ==
    LET L == candidateNames(vcert)
        ok == vres = "ok"
    IN  (Verified /\ ~HostIsIP /\ Len(L) = 1) =>
        /\ (L[1] = ExampleCom /\ vhost = UpperExampleComDot => ok)
        /\ (L[1] = ExampleCom /\ vhost = ExampleComDotDot => ~ok)
        /\ (L[1] = ExampleComDot /\ vhost = ExampleCom => ~ok)
        /\ (L[1] = IdnLower /\ vhost = IdnUpper => ~ok)
        /\ (ok /\ Len(L[1]) > 0 /\ L[1][Len(L[1])] = "."
                => FoldedEqual(vhost, L[1]))
        /\ (ok /\ TrimSuffixDot(vhost) # TrimSuffixDot(TrimSuffixDot(vhost))
                => FoldedEqual(vhost, L[1]))
        /\ (ok /\ ~FoldedEqual(vhost, L[1])
                => LabelwiseMatch(vhost, L[1]))

C35_Witness ==
    /\ vres = "ok"
    /\ vhost = UpperExampleComDot
    /\ vcert.DNSNames = <<ExampleCom>>
    /\ vcert.HasSAN

\* C36: verifyHostname never returns nil for a host that is empty or a
\* bare dot, and never through a candidate that is empty or a bare dot:
\* when it returns nil for a name host, a candidate that is neither
\* matches, whatever else the certificate holds.
C36_NoEmptyNames ==
    Verified =>
        /\ (EmptyOrDot(vhost) => vres = "mismatch")
        /\ (vres = "ok" /\ ~HostIsIP =>
                \E i \in 1..Len(candidateNames(vcert)) :
                    /\ ~EmptyOrDot(candidateNames(vcert)[i])
                    /\ EntryMatches(vhost, candidateNames(vcert)[i]))

\* a bare-dot host against a certificate that lists the bare dot is refused
C36_Witness ==
    /\ vres = "mismatch"
    /\ vhost = <<".">>
    /\ candidateNames(vcert) = <<<<".">>, <<"a">>>>

---------------------------------------------------------------------------
(* The order of the trust checks and the request (specification            *)
(* SpecProxy, where the clock stands still during the fetch).              *)

\* the hostname check is enabled / the validity check is enabled
HostnameCheckOn == ~client.Insecure /\ ~client.NoHostnameCheck
TimeCheckOn     == ~client.Insecure /\ ~client.NoTimeCheck

\* the positions of a fetch before connect has returned
InConnect == {"idle", "dial", "verifyHost", "notBefore", "notAfter"}

\* C39: no byte of the request line is written before every enabled trust
\* check on the peer's leaf certificate has passed: while connect has not
\* returned nothing is written, and once something is written the
\* handshake was made, the certificate verifies for the hostname of the
\* connection if that check is enabled, and the time is inside its
\* validity window if that check is enabled.
C39_ChecksBeforeRequest ==
    /\ pc \in InConnect => wire = <<>>
    /\ (Returned /\ retErr \in RejectErrors \cup {"dial"}) => wire = <<>>
    /\ wire # <<>> =>
        /\ sock # "none"
        /\ peer # NoCert
        /\ HostnameCheckOn => verifyHostname(peer, connHostname)
        /\ TimeCheckOn => (peer.NotBefore <= now /\ now <= peer.NotAfter)

\* both checks enabled and passed, the request line written
C39_Witness ==
    /\ HostnameCheckOn
    /\ TimeCheckOn
    /\ wire # <<>>
    /\ verifyHostname(peer, connHostname)
    /\ now = PeerNotBefore

---------------------------------------------------------------------------
(* Two fetches on one Client (specification SpecShare).                    *)

\* what a fetch leaves behind: what it returned, the Response when there is
\* one, its connection and what it wrote on it
Outcome(rr, er, st, me, bo, so, wi) ==
    [retRes |-> rr, retErr |-> er, Status |-> st, Meta |-> me, Body |-> bo,
     sock |-> so, wire |-> wi]

Failure(er, so, wi) == Outcome("nil", er, 0, <<>>, "nil", so, wi)

OutcomeOf(L) ==
    IF L.retRes = "res"
    THEN Outcome("res", L.retErr, L.res.Status, L.res.Meta, L.res.Body,
                 L.sock, L.wire)
    ELSE Failure(L.retErr, L.sock, L.wire)

\* FetchWithHostAndCert run from its first line to its return with nothing
\* else going on, as a function of the Client c, the time t, the arguments
\* and what the network does e: from the header on
aloneHeader(c, hd, wi) ==
    IF hd.kind # "header" THEN Failure("header", "closed", wi)
    ELSE IF statusRejected(c, hd.status) THEN Failure("status", "closed", wi)
    ELSE Outcome("res", "none", hd.status, hd.meta, "conn", "open", wi)

\* from the return of connect on
aloneSend(c, pu, e) ==
    IF ~e.sendOK THEN Failure("send", "closed", <<>>)
    ELSE aloneHeader(c, getHeader(e.stream), requestWrites(pu))

\* connect, past the handshake; err is what the hostname block says
aloneChecks(c, t, pu, e, err) ==
    IF ~c.Insecure /\ ~c.NoHostnameCheck /\ err # "none"
    THEN Failure(err, "open", <<>>)
    ELSE IF ~c.Insecure /\ ~c.NoTimeCheck /\ certForFuture(e.peer, t)
    THEN Failure("cert-future", "open", <<>>)
    ELSE IF ~c.Insecure /\ ~c.NoTimeCheck /\ certExpired(e.peer, t)
    THEN Failure("cert-expired", "open", <<>>)
    ELSE aloneSend(c, pu, e)

aloneConnect(c, t, pu, ph, e) ==
    IF ~e.dialOK THEN Failure("dial", "none", <<>>)
    ELSE aloneChecks(c, t, pu, e,
                     hostnameError(e.peer, SplitHostPort(ph).host))

aloneBegin(c, t, pem, pu, ph, e) ==
    IF ~pu.ok THEN Failure("punycode-url", "none", <<>>)
    ELSE IF urlTooLong(pu.s) THEN Failure("url-too-long", "none", <<>>)
    ELSE IF ~ph.ok THEN Failure("punycode-host", "none", <<>>)
    ELSE IF pem = "invalid" THEN Failure("keypair", "none", <<>>)
    ELSE aloneConnect(c, t, pu.s, ph.s, e)

fetchAlone(c, t, ih, iu, pem, e) ==
    aloneBegin(c, t, pem, GetPunycodeURL(iu), punycodeHost(withPort(ih)), e)

\* the locals of the fetch p, running or not
LocalsOf(p) == IF sched.running = p THEN RunningLocals ELSE sched.saved[p]

\* the fetch p has returned, and left what it leaves when it runs alone
SameAsAlone(p) ==
    LocalsOf(p).pc = "done" =>
        OutcomeOf(LocalsOf(p)) =
            fetchAlone(client, now, LocalsOf(p).inHost, LocalsOf(p).inURL,
                       LocalsOf(p).inPEM, sched.env[p])

\* C31: concurrent fetches that share one Client do not interfere: no step
\* of a fetch changes a field of the Client, a step of one fetch leaves the
\* connection, the Response and every other local of the other fetch as
\* they were, and under every interleaving each fetch returns what it
\* returns when it runs alone.
C31_NoInterference ==
    /\ [][/\ client' = client
          /\ \A p \in Procs :
                (sched'.running = sched.running /\ p # sched.running)
                    => sched'.saved[p] = sched.saved[p]
          /\ \A p \in Procs : LocalsOf(p).pc = "done" =>
                (sched'.running = p \/ sched'.saved[p] = LocalsOf(p))]_vars
    /\ [](\A p \in Procs : SameAsAlone(p))

\* the second fetch has failed on its header and closed its connection
\* while the first, its request written, waits with its connection open
C31_Witness ==
    /\ sched.running = 2
    /\ LocalsOf(2).pc = "done"
    /\ LocalsOf(2).retErr = "header"
    /\ LocalsOf(2).sock = "closed"
    /\ LocalsOf(1).pc = "readHeader"
    /\ LocalsOf(1).sock = "open"
    /\ sched.env[1].stream = Reply20
    /\ ~client.Insecure

---------------------------------------------------------------------------
(* The connection a fetch hands back (specification SpecBody).             *)

\* the step in which the fetch returns a Response
ReturnsResponse == pc # "done" /\ pc' = "done" /\ retRes' = "res"

\* a step that closes the connection
ClosesConn == sock = "open" /\ sock' = "closed"

\* C32: when a fetch returns a Response the connection is open and
\* Response.Body is that connection; the fetch closes a connection only on
\* a path that returns an error, and a connection handed back is closed
\* only by a step of the caller, who holds the Response.
C32_BodyIsOpenConn ==
    /\ [][/\ ReturnsResponse =>
                /\ sock' = "open"
                /\ res'.Body = "conn"
                /\ res'.conn = "conn"
                /\ retErr' = "none"
          /\ (ClosesConn /\ pc # "done") =>
                /\ pc' = "done"
                /\ retRes' = "nil"
                /\ retErr' \in LateErrors
          /\ (ClosesConn /\ pc = "done") => retRes = "res"]_vars
    /\ [](retRes = "res" =>
            /\ pc = "done"
            /\ sock \in {"open", "closed"}
            /\ res.Body = "conn")

\* the caller holds a Response whose connection is still open
C32_Witness ==
    /\ pc = "done"
    /\ retRes = "res"
    /\ res.Body = "conn"
    /\ res.Status = 20
    /\ sock = "open"

---------------------------------------------------------------------------
(* Properties of QueryEscape and QueryUnescape (specification SpecQuery).  *)

Escaped   == "QueryEscape" \in qcall.called
Unescaped == "QueryUnescape" \in qcall.called

\* how many bytes of s are c
CountOf(s, c) == Cardinality({i \in 1..Len(s) : s[i] = c})

\* how many times "%2B" stands in s
CountPlusEscapes(s) ==
    Cardinality({i \in 1..(Len(s) - 2) : SubSeq(s, i, i + 2) = <<"%", "2", "B">>})

\* C33: QueryUnescape(QueryEscape(q)) returns q and no error for every
\* query string q; the output of QueryEscape holds no literal + and every +
\* of q is emitted as %2B.
C33_QueryRoundTrip ==
    /\ Escaped =>
        /\ ~Contains(qcall.escaped, "+")
        /\ CountPlusEscapes(qcall.escaped) = CountOf(qcall.q, "+")
    /\ (Escaped /\ Unescaped /\ qcall.arg = qcall.escaped) =>
        /\ ~qcall.err
        /\ qcall.unescaped = qcall.q

\* a query that spells an escape of its own and holds a +
C33_Witness ==
    /\ Escaped
    /\ Unescaped
    /\ qcall.q = <<"%", "2", "+">>
    /\ qcall.arg = <<"%", "2", "5", "2", "%", "2", "B">>
    /\ qcall.unescaped = qcall.q
    /\ ~qcall.err

---------------------------------------------------------------------------
(* Further properties of getHeader and readHeader (specification           *)
(* SpecHeader).                                                            *)

\* the header line is empty or white space alone
BlankLine == \A i \in 1..Len(HeaderLine) : IsSpace(HeaderLine[i])

\* C37: for every byte stream getHeader returns a header or an error and
\* never crashes; for a header line that is empty or white space alone
\* (CR LF alone, one space then CR LF) it returns an error.
C37_NeverCrashes ==
    /\ pc # "panic"
    /\ (HeaderCalled /\ PlainStream /\ HasCRLF /\ BlankLine) => HeaderError

\* C38: the line readHeader returns is exactly the bytes the stream
\* delivered before the first CR LF, also when some Reads return zero bytes
\* and no error: a Read that delivers no byte adds nothing to the line.
C38_LineIsDelivered ==
    (HeaderCalled /\ readHeader(sent).ok) =>
        /\ HasCRLF
        /\ readHeader(sent).line = HeaderLine

===========================================================================
